---- MODULE Spec2Model ----
(***************************************************************************)
(* Relation / co-occurrence analysis and network construction of biblium.  *)
(*                                                                         *)
(* Twelve independent parts of the program are modelled, each with its     *)
(* own specification over its own variables (the other parts stay idle):   *)
(*   SpecRelation   utilsbib.compute_relation_matrix                       *)
(*   SpecPartitions utilsbib.add_partitions                                *)
(*   SpecMainPath   utilsbib.compute_main_path                             *)
(*   SpecCitation   utilsbib.build_citation_network and                    *)
(*                  BiblioStats.build_citation_network                     *)
(*   SpecSelect     utilsbib.select_documents (value_type = "list"),       *)
(*                  match_items_and_compute_binary_indicators and          *)
(*                  count_occurrences (count_type = "list")                *)
(*   SpecCooccurrence BiblioStats.compute_cooccurrence                     *)
(*   SpecHistoriograph utilsbib.build_historiograph                        *)
(*   SpecPajek      utilsbib.save_network and save_graph / save_to_pajek   *)
(*   SpecMargins    utilsbib.remove_zero_margins and the functions of the  *)
(*                  relation-analysis suite that call it                   *)
(*   SpecDispatch   the operations of utilsbib that choose by a name       *)
(*   SpecGroupMatrix utilsbib.generate_group_matrix                        *)
(*   SpecRelateConcepts BiblioStats.relate_concepts                        *)
(***************************************************************************)
EXTENDS Integers, Sequences, FiniteSets, TLC

VARIABLES
    \* ---- compute_relation_matrix
    rel_pc,                 \* "idle" | "input" | "returned" | "raised"
    df1,                    \* document-item matrix 1: sequence of rows
    df2,                    \* document-item matrix 2: sequence of rows, or None
    relation,               \* the raw relation matrix (df1.T @ df2)
    normalized_matrices,    \* measure name -> matrix of quotients
    all_measures_df,        \* the "count" column of the all-measures table
    rel_args,               \* the arguments of the call, and where it was made to fail
    \* ---- add_partitions
    part_pc,                \* "idle" | "loop" | "returned" | "raised"
    part_edges,             \* the edges of G (its nodes are PartNodes)
    ig_available,           \* igraph was imported (ig is not None)
    louvain_available,      \* python-louvain was imported
    community_of,           \* the labels the detection algorithms hand out
    part_i,                 \* position of the loop over configs
    part_failures,          \* calls that raised although their dependency is there
    func_returned,          \* history: the algorithms whose function returned
    results,                \* algorithm name -> partition
    node_attrs,             \* node -> (attribute name -> value)
    \* ---- compute_main_path
    path_pc,                \* "idle" | "input" | "done"
    G_nodes,                \* the nodes of the digraph G (document ids)
    G_edges,                \* the edges of G: pairs <<citing, cited>>
    main_path,              \* the list compute_main_path returns
    \* ---- build_citation_network
    cite_pc,                \* "idle" | "match" | "built" | "stored" | "raised"
    titles,                 \* df["Title"]: document index -> title
    threshold,              \* the fuzzy-match threshold
    partial_ratio,          \* fuzz.partial_ratio on normalized strings
    cite_idx,               \* the next row of df["References"]
    cur_refs,               \* df["References"] of the row just read
    cite_G,                 \* the graph G: [nodes, edges]
    unmatched,              \* citing document -> list of unmatched references
    citation_network_documents,  \* BiblioStats attribute (a graph)
    citation_main_path,     \* BiblioStats attribute (unset, or a list)
    \* ---- select_documents
    sel_pc,                 \* "idle" | "input" | "returned" | "raised"
    sel_docs,               \* df[col]: sequence of values (row idx is at idx + 1)
    items_of_interest,      \* the target vocabulary after exclusion
    match_indices,          \* item -> list of row indices
    indicators_dict,        \* "binary" / "fractional" -> indicator matrix
    sel_args,               \* the arguments of the call that returned
    occurrence_counts,      \* count_occurrences: item -> "Number of documents"
    \* ---- BiblioStats.compute_cooccurrence
    co_pc,                  \* "idle" | "input" | "returned" | "raised"
    binary_matrix,          \* indicators["binary"]: sequence of rows
    item_names,             \* column of binary_matrix -> the name of the item
    co_args,                \* the arguments of the call
    co_network,             \* the graph returned, nodes relabelled, or None
    partitions_saw,         \* the graph add_partitions was called with
    save_saw,               \* the graph save_network was called with
    \* ---- build_historiograph
    hist_pc,                \* "idle" | "input" | "returned"
    hist_year,              \* document -> its year is not missing
    hist_refs,              \* document -> the candidate titles of its references
    hist_cutoff,            \* cutoff of approximate_match, in percent
    hist_G,                 \* the graph G: [nodes, edges]
    \* ---- Pajek export
    paj_pc,                 \* "idle" | "input" | "written"
    paj_attrs,              \* node -> the names of its attributes
    paj_call,               \* the exporter called and its arguments
    paj_files,              \* the names of the files written
    \* ---- Relation Analysis Suite: remove_zero_margins
    zm_pc,                  \* "idle" | "input" | "computed"
    df_relation,            \* the relation matrix handed in: [rows, cols, val]
    zm_call,                \* the function called, its clean_zeros, and through what
    zm_used,                \* the matrix the function computes on
    \* ---- operations that dispatch on a method name
    disp_pc,                \* "idle" | "input" | "done"
    disp_methods,           \* the list of method names under construction
    disp_call,              \* the operation called and the name(s) it was given
    disp_result,            \* [raised, keys]: the error raised and the results returned
    \* ---- generate_group_matrix
    gm_pc,                  \* "idle" | "input" | "returned"
    gm_membership,          \* document, group -> the document belongs to the group
    gm_args,                \* binary_as_int and invert_matrix of the call
    gm_matrix,              \* the matrix returned: [dtype, v] per entry
    \* ---- BiblioStats.relate_concepts
    rc_pc,                  \* "idle" | "ready" | "returned" | "raised"
    rc_calls,               \* the calls of relate_concepts made so far
    sources_indcators,      \* BiblioStats attribute, its "binary" frame
    author_keywords_indcators,\* BiblioStats attribute, its "binary" frame
    relation_matrices,      \* BiblioStats attribute: (concept1, concept2) -> frame
    relations               \* BiblioStats attribute: the (concept1, concept2) holding a Relation

relVars == <<rel_pc, df1, df2, relation, normalized_matrices, all_measures_df, rel_args>>

partVars == <<part_pc, part_edges, ig_available, louvain_available, community_of,
              part_i, part_failures, func_returned, results, node_attrs>>

pathVars == <<path_pc, G_nodes, G_edges, main_path>>

citeVars == <<cite_pc, titles, threshold, partial_ratio, cite_idx, cur_refs, cite_G,
              unmatched, citation_network_documents, citation_main_path>>

selVars == <<sel_pc, sel_docs, items_of_interest, match_indices, indicators_dict,
             sel_args, occurrence_counts>>

coVars == <<co_pc, binary_matrix, item_names, co_args, co_network, partitions_saw, save_saw>>

histVars == <<hist_pc, hist_year, hist_refs, hist_cutoff, hist_G>>

pajVars == <<paj_pc, paj_attrs, paj_call, paj_files>>

zmVars == <<zm_pc, df_relation, zm_call, zm_used>>

dispVars == <<disp_pc, disp_methods, disp_call, disp_result>>

gmVars == <<gm_pc, gm_membership, gm_args, gm_matrix>>

rcVars == <<rc_pc, rc_calls, sources_indcators, author_keywords_indcators, relation_matrices, relations>>

vars == <<relVars, partVars, pathVars, citeVars, selVars, coVars, histVars, pajVars, zmVars, dispVars, gmVars, rcVars>>

\* What an action of one part leaves alone: the variables of the other parts.
notRelVars == <<partVars, pathVars, citeVars, selVars, coVars, histVars, pajVars, zmVars, dispVars, gmVars, rcVars>>

notPartVars == <<relVars, pathVars, citeVars, selVars, coVars, histVars, pajVars, zmVars, dispVars, gmVars, rcVars>>

notPathVars == <<relVars, partVars, citeVars, selVars, coVars, histVars, pajVars, zmVars, dispVars, gmVars, rcVars>>

notCiteVars == <<relVars, partVars, pathVars, selVars, coVars, histVars, pajVars, zmVars, dispVars, gmVars, rcVars>>

notSelVars == <<relVars, partVars, pathVars, citeVars, coVars, histVars, pajVars, zmVars, dispVars, gmVars, rcVars>>

notCoVars == <<relVars, partVars, pathVars, citeVars, selVars, histVars, pajVars, zmVars, dispVars, gmVars, rcVars>>

notHistVars == <<relVars, partVars, pathVars, citeVars, selVars, coVars, pajVars, zmVars, dispVars, gmVars, rcVars>>

notPajVars == <<relVars, partVars, pathVars, citeVars, selVars, coVars, histVars, zmVars, dispVars, gmVars, rcVars>>

notZmVars == <<relVars, partVars, pathVars, citeVars, selVars, coVars, histVars, pajVars, dispVars, gmVars, rcVars>>

notDispVars == <<relVars, partVars, pathVars, citeVars, selVars, coVars, histVars, pajVars, zmVars, gmVars, rcVars>>

notGmVars == <<relVars, partVars, pathVars, citeVars, selVars, coVars, histVars, pajVars, zmVars, dispVars, rcVars>>

notRcVars == <<relVars, partVars, pathVars, citeVars, selVars, coVars, histVars, pajVars, zmVars, dispVars, gmVars>>

(***************************************************************************)
(* Shared helpers                                                          *)
(***************************************************************************)
Abs(x) == IF x < 0 THEN -x ELSE x

MinOf(x, y) == IF x <= y THEN x ELSE y

(***************************************************************************)
(* compute_relation_matrix (tfidf = False, network = False).  A document-   *)
(* item matrix is a sequence of rows, one per document, each row a         *)
(* function from the matrix's columns (items) to {0, 1}.                   *)
(***************************************************************************)
RelMaxDocs == 3

ItemsA == {"A", "B", "C"}

ItemsB == {"X"}

\* eps = 1e-9 is kept as its reciprocal: eps = 1 / EpsInv.
EpsInv == 1000000000

BinaryRows(cols) == [cols -> {0, 1}]

\* The df2 argument: absent (None), or a matrix over the same documents.
NoDf2 == [given |-> FALSE, rows |-> <<>>]

\* "if df2 is None: df2 = df1".
Df2Of(d1, d2) == IF d2.given THEN d2.rows ELSE d1

ColsB(d2) == IF d2.given THEN ItemsB ELSE ItemsA

\* (df1.T @ df2)[i, j] = sum over the documents d of df1[d, i] * df2[d, j].
RECURSIVE DotColumns(_, _, _, _, _)
DotColumns(m1, m2, i, j, n) ==
    IF n = 0 THEN 0
    ELSE DotColumns(m1, m2, i, j, n - 1) + m1[n][i] * m2[n][j]

MatMulT_bug(m1, m2, cols2) ==
    [p \in ItemsA \X cols2 |->
        IF p[1] = p[2] THEN 0 ELSE DotColumns(m1, m2, p[1], p[2], Len(m1))]

MatMulT(m1, m2, cols2) ==
    [p \in ItemsA \X cols2 |-> DotColumns(m1, m2, p[1], p[2], Len(m1))]

\* df.sum(axis=0): the sum of every column.
RECURSIVE ColumnSum(_, _, _)
ColumnSum(m, i, n) ==
    IF n = 0 THEN 0 ELSE ColumnSum(m, i, n - 1) + m[n][i]

SumAxis0(m, cols) == [i \in cols |-> ColumnSum(m, i, Len(m))]

(***************************************************************************)
(* A cell of a normalized matrix is the quotient num / (den + eps), or     *)
(* num / (sqrt(den) + eps) when root is TRUE.  It is kept as the integers  *)
(* it is computed from, so that comparisons with 0, 1 and -1 are exact.    *)
(***************************************************************************)
Quot(n, d) == [num |-> n, den |-> d, root |-> FALSE]

QuotRoot(n, d) == [num |-> n, den |-> d, root |-> TRUE]

\* The 2x2 contingency table of Yule's Q and of Fisher's exact test.
YuleA(R, r, c, N) == R

YuleB(R, r, c, N) == r - R

YuleC(R, r, c, N) == c - R

YuleD(R, r, c, N) == N - (YuleA(R, r, c, N) + YuleB(R, r, c, N) + YuleC(R, r, c, N))

Association(R, r, c) == Quot(R, r * c)

Inclusion(R, r, c) == Quot(R, MinOf(r, c))

Salton(R, r, c) == QuotRoot(R, r * c)

YuleQ(R, r, c, N) ==
    LET a == YuleA(R, r, c, N)
        b == YuleB(R, r, c, N)
        cc == YuleC(R, r, c, N)
        d == YuleD(R, r, c, N)
    IN  Quot(a * d - b * cc, a * d + b * cc)

FisherTable(R, r, c, N) ==
    <<YuleA(R, r, c, N), YuleB(R, r, c, N), YuleC(R, r, c, N), YuleD(R, r, c, N)>>

Jaccard_bug(R, r, c) == Quot(R, r + c - 2 * R)

Jaccard(R, r, c) == Quot(R, r + c - R)

Equivalence(R, r, c) == Quot(R * R, r * c)

NormalizedMatrices(d1, d2raw, R) ==
    LET d2 == Df2Of(d1, d2raw)
        cols2 == ColsB(d2raw)
        row_sums == SumAxis0(d1, ItemsA)
        col_sums == SumAxis0(d2, cols2)
        n_docs == Len(d1)
        Cells(F(_, _, _)) ==
            [p \in ItemsA \X cols2 |-> F(R[p], row_sums[p[1]], col_sums[p[2]])]
        Cells4(F(_, _, _, _)) ==
            [p \in ItemsA \X cols2 |-> F(R[p], row_sums[p[1]], col_sums[p[2]], n_docs)]
    IN  [association |-> Cells(Association),
         inclusion   |-> Cells(Inclusion),
         salton      |-> Cells(Salton),
         yule_q      |-> Cells4(YuleQ),
         fisher_p    |-> Cells4(FisherTable),
         jaccard     |-> Cells(Jaccard),
         equivalence |-> Cells(Equivalence)]

\* An entry np.nan of a matrix.
np_nan == -1

(***************************************************************************)
(* pmi = True.  PMI[i, j] = max(0, ln(Pij / (Pi * Pj))) with Pij =         *)
(* R[i, j] / total and Pi = R[i, i] / total, both raised to eps.  A PMI    *)
(* value is kept rounded down to whole nats; the quotient under the        *)
(* logarithm is kept as a pair of integers.                                *)
(***************************************************************************)
RECURSIVE SumCells(_, _)
SumCells(R, cells) ==
    IF cells = {} THEN 0
    ELSE LET p == CHOOSE x \in cells : TRUE IN R[p] + SumCells(R, cells \ {p})

\* ln(1 / eps) in whole nats.
LnEpsInv == 20

\* e, e^2, ... e^5 times ExpScale, rounded up.
ExpScale == 100000

ExpTable == <<271829, 738906, 2008554, 5459816, 14841316>>

\* floor(ln(a / b)) for a >= 0 and b > 0, and 0 for a quotient below 1.
WholeNats(a, b) ==
    Cardinality({k \in 1..Len(ExpTable) : a * ExpScale >= b * ExpTable[k]})

\* Pij / (Pi[i] * Pi[j]) after np.maximum(., eps), for total > 0.
PmiCell(R, i, j, total) ==
    IF R[<<i, i>>] = 0 /\ R[<<j, j>>] = 0 THEN LnEpsInv
    ELSE IF R[<<i, i>>] = 0 THEN WholeNats(total, R[<<j, j>>])
    ELSE IF R[<<j, j>>] = 0 THEN WholeNats(total, R[<<i, i>>])
    ELSE IF R[<<i, j>>] = 0 THEN 0
    ELSE WholeNats(R[<<i, j>>] * total, R[<<i, i>>] * R[<<j, j>>])

\* total = 0 divides 0 by 0: every cell is nan, and "PMI[PMI < 0] = 0" leaves it.
PMI(R) ==
    LET total == SumCells(R, DOMAIN R)
    IN  [p \in DOMAIN R |-> IF total = 0 THEN np_nan ELSE PmiCell(R, p[1], p[2], total)]

(***************************************************************************)
(* The try blocks of the normalizations.  fault names the block that is    *)
(* made to raise in a call; the block of yule_q binds a, b, c, d before it *)
(* computes the measure, and the block of fisher_p reads them.             *)
(***************************************************************************)
Measures ==
    {"association", "inclusion", "salton", "yule_q", "fisher_p", "jaccard", "equivalence"}

Faults == {"none", "association", "inclusion", "salton", "yule_q_early", "yule_q_late",
           "fisher_p", "jaccard", "equivalence"}

\* The block of a measure runs to its assignment.
BlockCompletes_bug(measure, fault) ==
    CASE measure = "yule_q" -> fault \notin {"yule_q_early", "yule_q_late"}
      [] OTHER -> fault # measure

BlockCompletes(measure, fault) ==
    CASE measure = "yule_q" -> fault \notin {"yule_q_early", "yule_q_late"}
      [] measure = "fisher_p" -> fault \notin {"fisher_p", "yule_q_early"}
      [] OTHER -> fault # measure

\* normalized_matrices after the try blocks.
Computed(full, fault) ==
    [m \in {x \in Measures : BlockCompletes(x, fault)} |-> full[m]]

\* "if pmi: if not df1.equals(df2): raise ValueError(...)".
PmiRejects_bug(args) == args.pmi

PmiRejects(args) == args.pmi /\ args.second = "other"

\* The arguments of a call: df2 passed as None or as a frame equal to df1
\* ("same"), or as another frame ("other"); a block is made to fail only in
\* a call with normalization, without pmi and without another frame.
RelArgs(d2) ==
    IF d2.given
    THEN {[second |-> "other", normalization |-> n, pmi |-> FALSE, fault |-> "none"] :
             n \in BOOLEAN}
         \cup {[second |-> "other", normalization |-> FALSE, pmi |-> TRUE, fault |-> "none"]}
    ELSE {[second |-> k, normalization |-> n, pmi |-> q, fault |-> "none"] :
             k \in {"none", "same"}, n \in BOOLEAN, q \in BOOLEAN}
         \cup {[second |-> k, normalization |-> TRUE, pmi |-> FALSE, fault |-> f] :
                  k \in {"none", "same"}, f \in Faults}

ZmIdle ==
    /\ zm_pc = "idle"
    /\ df_relation = <<>>
    /\ zm_call = <<>>
    /\ zm_used = <<>>

DispIdle ==
    /\ disp_pc = "idle"
    /\ disp_methods = <<>>
    /\ disp_call = <<>>
    /\ disp_result = <<>>

GmIdle ==
    /\ gm_pc = "idle"
    /\ gm_membership = <<>>
    /\ gm_args = <<>>
    /\ gm_matrix = <<>>

RcIdle ==
    /\ rc_pc = "idle"
    /\ rc_calls = 0
    /\ sources_indcators = <<>>
    /\ author_keywords_indcators = <<>>
    /\ relation_matrices = <<>>
    /\ relations = {}

CoIdle ==
    /\ co_pc = "idle"
    /\ binary_matrix = <<>>
    /\ item_names = <<>>
    /\ co_args = <<>>
    /\ co_network = <<>>
    /\ partitions_saw = <<>>
    /\ save_saw = <<>>

HistIdle ==
    /\ hist_pc = "idle"
    /\ hist_year = <<>>
    /\ hist_refs = <<>>
    /\ hist_cutoff = 0
    /\ hist_G = <<>>

PajIdle ==
    /\ paj_pc = "idle"
    /\ paj_attrs = <<>>
    /\ paj_call = <<>>
    /\ paj_files = {}

\* The parts added last are idle.
OutputIdle == CoIdle /\ HistIdle /\ PajIdle /\ ZmIdle /\ DispIdle /\ GmIdle /\ RcIdle

PartIdle ==
    /\ part_pc = "idle"
    /\ part_edges = {}
    /\ ig_available = FALSE
    /\ louvain_available = FALSE
    /\ community_of = <<>>
    /\ part_i = 0
    /\ part_failures = 0
    /\ func_returned = {}
    /\ results = <<>>
    /\ node_attrs = <<>>

EmptyGraph == [nodes |-> {}, edges |-> {}]

\* An attribute that was never assigned.
Unset == [set |-> FALSE, value |-> <<>>]

SelIdle ==
    /\ sel_pc = "idle" /\ sel_docs = <<>> /\ items_of_interest = {}
    /\ match_indices = <<>> /\ indicators_dict = <<>>
    /\ sel_args = <<>> /\ occurrence_counts = [given |-> FALSE, counts |-> <<>>]

CiteIdle ==
    /\ cite_pc = "idle"
    /\ titles = <<>>
    /\ threshold = 0
    /\ partial_ratio = <<>>
    /\ cite_idx = 0
    /\ cur_refs = <<>>
    /\ cite_G = EmptyGraph
    /\ unmatched = <<>>
    /\ citation_network_documents = EmptyGraph
    /\ citation_main_path = Unset

PathIdle ==
    /\ path_pc = "idle"
    /\ G_nodes = {}
    /\ G_edges = {}
    /\ main_path = <<>>

RelIdle ==
    /\ rel_pc = "idle"
    /\ df1 = <<>>
    /\ df2 = NoDf2
    /\ relation = <<>>
    /\ normalized_matrices = <<>>
    /\ all_measures_df = <<>>
    /\ rel_args = <<>>

\* The caller passes df1 alone (df2 = None) or two matrices over the same documents.
RelInit ==
    /\ rel_pc = "input"
    /\ df1 = <<>>
    /\ df2 \in {NoDf2, [given |-> TRUE, rows |-> <<>>]}
    /\ relation = <<>>
    /\ normalized_matrices = <<>>
    /\ all_measures_df = <<>>
    /\ rel_args = <<>>

\* One more document in the corpus: one more row of each matrix.
AddDocument ==
    /\ rel_pc = "input"
    /\ Len(df1) < RelMaxDocs
    /\ \E rowA \in BinaryRows(ItemsA) :
         /\ df1' = Append(df1, rowA)
         /\ IF df2.given
            THEN \E rowB \in BinaryRows(ItemsB) :
                    df2' = [df2 EXCEPT !.rows = Append(@, rowB)]
            ELSE df2' = df2
    /\ UNCHANGED <<rel_pc, relation, normalized_matrices, all_measures_df, rel_args>>
    /\ UNCHANGED notRelVars

ComputeRelationMatrix ==
    /\ rel_pc = "input"
    /\ \E args \in RelArgs(df2) :
         LET raw == MatMulT(df1, Df2Of(df1, df2), ColsB(df2))
             R == IF args.pmi THEN PMI(raw) ELSE raw
         IN  /\ rel_args' = args
             /\ IF PmiRejects(args)
                THEN \* raise ValueError("PMI can only be applied to co-occurrence matrices ...")
                     /\ rel_pc' = "raised"
                     /\ UNCHANGED <<relation, normalized_matrices, all_measures_df>>
                ELSE /\ rel_pc' = "returned"
                     /\ relation' = R
                     /\ normalized_matrices' =
                           IF args.normalization
                           THEN Computed(NormalizedMatrices(df1, df2, R), args.fault)
                           ELSE <<>>
                     /\ all_measures_df' = [count |-> R]
    /\ UNCHANGED <<df1, df2>>
    /\ UNCHANGED notRelVars

RelNext == AddDocument \/ ComputeRelationMatrix

InitRelation == RelInit /\ PartIdle /\ PathIdle /\ CiteIdle /\ SelIdle /\ OutputIdle

SpecRelation == InitRelation /\ [][RelNext]_vars

(***************************************************************************)
(* Reading a quotient: comparisons of num / (den + eps) with 0 and 1.      *)
(* For integers num and den, num <= den + 1/EpsInv iff num - den <=        *)
(* 1 \div EpsInv; for a root, num <= sqrt(den) + eps iff num * num <= den  *)
(* as long as sqrt(den + 1) + sqrt(den) < EpsInv.                          *)
(***************************************************************************)
QuotAtLeast0(q) ==
    IF q.den >= 0 THEN q.num >= 0 ELSE q.num <= 0

QuotAtMost1(q) ==
    IF q.root
    THEN q.num <= 0 \/ q.num * q.num <= q.den
    ELSE IF q.den >= 0
         THEN q.num - q.den <= 1 \div EpsInv
         ELSE q.num >= q.den + 1

QuotAbsAtMost1(q) ==
    IF q.den >= 0 THEN Abs(q.num) - q.den <= 1 \div EpsInv
    ELSE Abs(q.num) <= (-q.den) - 1

InUnitInterval(q) == QuotAtLeast0(q) /\ QuotAtMost1(q)

\* The number of documents that contain item i of df1 and item j of df2.
DocsWithBoth(i, j) ==
    LET d2 == Df2Of(df1, df2)
    IN  Cardinality({d \in 1..Len(df1) : df1[d][i] = 1 /\ d2[d][j] = 1})

DocumentFrequency(i) == Cardinality({d \in 1..Len(df1) : df1[d][i] = 1})

ExampleCorpus ==
    << [A |-> 1, B |-> 1, C |-> 0],
       [A |-> 0, B |-> 1, C |-> 1],
       [A |-> 1, B |-> 1, C |-> 1] >>

\* C1: for binary indicator matrices every cell of the raw relation is the
\* number of documents containing both items; a self co-occurrence matrix is
\* symmetric with the document frequencies on its diagonal, and the corpus
\* {A,B}, {B,C}, {A,B,C} gives R[A,B]=2, R[B,C]=2, R[A,C]=1, diagonal 2, 3, 2.
C1_RawRelationCounts ==
    (rel_pc = "returned" /\ ~rel_args.pmi) =>
        /\ \A p \in DOMAIN relation : relation[p] = DocsWithBoth(p[1], p[2])
        /\ ~df2.given =>
             /\ \A i, j \in ItemsA : relation[<<i, j>>] = relation[<<j, i>>]
             /\ \A i \in ItemsA : relation[<<i, i>>] = DocumentFrequency(i)
        /\ (~df2.given /\ df1 = ExampleCorpus) =>
             /\ relation[<<"A", "B">>] = 2
             /\ relation[<<"B", "C">>] = 2
             /\ relation[<<"A", "C">>] = 1
             /\ relation[<<"A", "A">>] = 2
             /\ relation[<<"B", "B">>] = 3
             /\ relation[<<"C", "C">>] = 2

C1_Witness ==
    /\ rel_pc = "returned"
    /\ ~rel_args.pmi
    /\ ~df2.given
    /\ df1 = ExampleCorpus
    /\ relation[<<"A", "B">>] = 2

\* C2: for binary inputs every cell of jaccard, salton, association, inclusion
\* and equivalence lies in [0, 1], every cell of yule_q lies in [-1, 1], and
\* the 2x2 cell counts a, b, c, d of Yule's Q are non-negative.
C2_NormalizationBounds ==
    (rel_pc = "returned" /\ rel_args.normalization /\ ~rel_args.pmi
        /\ rel_args.fault = "none") =>
        \A p \in DOMAIN relation :
            /\ InUnitInterval(normalized_matrices.jaccard[p])
            /\ InUnitInterval(normalized_matrices.salton[p])
            /\ InUnitInterval(normalized_matrices.association[p])
            /\ InUnitInterval(normalized_matrices.inclusion[p])
            /\ InUnitInterval(normalized_matrices.equivalence[p])
            /\ QuotAbsAtMost1(normalized_matrices.yule_q[p])
            /\ \A k \in 1..4 : normalized_matrices.fisher_p[p][k] >= 0

C2_Witness ==
    /\ rel_pc = "returned"
    /\ rel_args.normalization /\ ~rel_args.pmi /\ rel_args.fault = "none"
    /\ df2.given
    /\ \E p \in DOMAIN relation :
         /\ relation[p] >= 1
         /\ normalized_matrices.jaccard[p].num < normalized_matrices.jaccard[p].den
         /\ normalized_matrices.salton[p].num * normalized_matrices.salton[p].num
                < normalized_matrices.salton[p].den
    /\ \E p \in DOMAIN relation : normalized_matrices.yule_q[p].num < 0
    /\ \E p \in DOMAIN relation :
         normalized_matrices.yule_q[p].num = normalized_matrices.yule_q[p].den

(***************************************************************************)
(* add_partitions: every community-detection function of configs is tried  *)
(* in turn on G; what a function returns is stored under its name and      *)
(* written onto the nodes as the attribute partition_<name>.               *)
(***************************************************************************)
PartNodes == {"n1", "n2", "n3"}

\* Calls that raise for a reason other than a missing optional dependency.
PartMaxFailures == 1

\* The labels a detection algorithm may hand out: 0 .. MaxCommunity.
MaxCommunity == 1

\* configs, in the order the dict is written and iterated.
Configs ==
    << "walktrap", "edge_betweenness", "infomap", "leading_eigenvector",
       "leiden", "spinglass", "louvain", "greedy_modularity",
       "label_propagation", "girvan_newman", "k_clique", "kernighan_lin" >>

Algorithms == {Configs[k] : k \in 1..Len(Configs)}

\* The functions that build an igraph graph first (ig.Graph.TupleList).
IgraphBased == {"walktrap", "infomap", "leading_eigenvector", "leiden", "spinglass"}

UndirectedEdges == {e \in SUBSET PartNodes : Cardinality(e) = 2}

\* ig.Graph.TupleList(G.edges()) holds the end points of G's edges only.
EdgeEndpoints(edges) == {n \in PartNodes : \E e \in edges : n \in e}

\* k_clique_communities(G, 3) covers the nodes that lie in a triangle.
InKClique(edges) ==
    {n \in PartNodes :
        \E a, b \in PartNodes :
            /\ Cardinality({n, a, b}) = 3
            /\ {n, a} \in edges /\ {n, b} \in edges /\ {a, b} \in edges}

\* The nodes a partition function labels.
PartitionNodes(name, edges) ==
    IF name \in IgraphBased THEN EdgeEndpoints(edges)
    ELSE IF name = "k_clique" THEN InKClique(edges)
    ELSE PartNodes

\* A missing optional dependency makes the call raise (ig is None: attribute
\* error on ig.Graph; community_louvain is None: ImportError).
DependencyMissing(name, ig, louvain) ==
    \/ name \in IgraphBased /\ ~ig
    \/ name = "louvain" /\ ~louvain

Raised == [raised |-> TRUE, partition |-> <<>>]

Returned(m) == [raised |-> FALSE, partition |-> m]

\* partition = func(G, **kwargs): what the call of one partition function does.
FuncOutcomes(name, edges, ig, louvain, labels, failures) ==
    IF DependencyMissing(name, ig, louvain) THEN {Raised}
    ELSE {Returned([n \in PartitionNodes(name, edges) |-> labels[n]])}
           \cup (IF failures < PartMaxFailures THEN {Raised} ELSE {})

AttrName(name) == <<"partition", name>>

\* results[name] = partition, inside the try.
ResultsAfter(res, name, outcome) ==
    IF outcome.raised THEN res
    ELSE [a \in DOMAIN res \cup {name} |->
            IF a = name THEN outcome.partition ELSE res[a]]

\* for node, cid in partition.items(): G.nodes[node][f"partition_{name}"] = cid
SetAttr(attrs, key, value) ==
    [k \in DOMAIN attrs \cup {key} |-> IF k = key THEN value ELSE attrs[k]]

AttrsAfter_bug(attrs, name, outcome) ==
    IF outcome.raised THEN attrs
    ELSE [n \in PartNodes |->
            IF n \in DOMAIN outcome.partition
            THEN SetAttr(attrs[n], <<"partition", "louvain">>, outcome.partition[n])
            ELSE attrs[n]]

AttrsAfter(attrs, name, outcome) ==
    IF outcome.raised THEN attrs
    ELSE [n \in PartNodes |->
            IF n \in DOMAIN outcome.partition
            THEN SetAttr(attrs[n], AttrName(name), outcome.partition[n])
            ELSE attrs[n]]

\* "except: pass": a failed algorithm is skipped and the loop goes on.
PcAfter_bug(outcome) == IF outcome.raised THEN "raised" ELSE "loop"

PcAfter(outcome) == "loop"

PartInit ==
    /\ part_pc = "loop"
    /\ part_edges \in SUBSET UndirectedEdges
    /\ ig_available \in BOOLEAN
    /\ louvain_available \in BOOLEAN
    /\ community_of \in [PartNodes -> 0..MaxCommunity]
    /\ part_i = 1
    /\ part_failures = 0
    /\ func_returned = {}
    /\ results = <<>>
    /\ node_attrs = [n \in PartNodes |-> <<>>]

\* One iteration of "for name, (func, kwargs) in configs.items()".
PartitionStep ==
    /\ part_pc = "loop"
    /\ part_i <= Len(Configs)
    /\ LET name == Configs[part_i]
       IN  \E outcome \in FuncOutcomes(name, part_edges, ig_available,
                                       louvain_available, community_of, part_failures) :
             /\ results' = ResultsAfter(results, name, outcome)
             /\ node_attrs' = AttrsAfter(node_attrs, name, outcome)
             /\ part_pc' = PcAfter(outcome)
             /\ func_returned' =
                    IF outcome.raised THEN func_returned ELSE func_returned \cup {name}
             /\ part_failures' =
                    IF outcome.raised /\ ~DependencyMissing(name, ig_available, louvain_available)
                    THEN part_failures + 1 ELSE part_failures
    /\ part_i' = part_i + 1
    /\ UNCHANGED <<part_edges, ig_available, louvain_available, community_of>>
    /\ UNCHANGED notPartVars

\* "return results"
PartitionsReturn ==
    /\ part_pc = "loop"
    /\ part_i > Len(Configs)
    /\ part_pc' = "returned"
    /\ UNCHANGED <<part_edges, ig_available, louvain_available, community_of,
                   part_i, part_failures, func_returned, results, node_attrs>>
    /\ UNCHANGED notPartVars

PartNext == PartitionStep \/ PartitionsReturn

InitPartitions == PartInit /\ RelIdle /\ PathIdle /\ CiteIdle /\ SelIdle /\ OutputIdle

SpecPartitions == InitPartitions /\ [][PartNext]_vars

\* C3: add_partitions never raises, whichever partition functions fail: the
\* loop always goes on to its return, and the keys of the returned dict are
\* exactly the algorithms whose partition function returned a mapping.
C3_BatchNeverAborts ==
    /\ part_pc # "raised"
    /\ part_pc = "loop" => ENABLED PartNext
    /\ part_pc = "returned" => DOMAIN results = func_returned

C3_Witness ==
    /\ part_pc = "returned"
    /\ ~ig_available
    /\ part_failures = 1
    /\ "louvain" \in DOMAIN results
    /\ DOMAIN results # Algorithms

\* C4: on a graph without partition attributes beforehand, every node n of
\* every returned mapping carries partition_<a> = mapping[n], and no node
\* carries partition_<a> for an algorithm a absent from the returned dict.
C4_AttributesMatchResults ==
    part_pc = "returned" =>
        /\ \A a \in DOMAIN results : \A n \in DOMAIN results[a] :
             /\ AttrName(a) \in DOMAIN node_attrs[n]
             /\ node_attrs[n][AttrName(a)] = results[a][n]
        /\ \A n \in PartNodes : \A a \in Algorithms :
             AttrName(a) \in DOMAIN node_attrs[n] => a \in DOMAIN results

C4_Witness ==
    /\ part_pc = "returned"
    /\ \E a \in DOMAIN results : \E n, m \in DOMAIN results[a] :
         /\ results[a][n] # results[a][m]
         /\ node_attrs[n][AttrName(a)] = results[a][n]
    /\ \E a \in Algorithms : a \notin DOMAIN results

(***************************************************************************)
(* compute_main_path: condensation of G, longest path of the condensation, *)
(* one representative document id per component.                           *)
(*                                                                         *)
(* A document id is the string of digits that follows a common prefix      *)
(* ("Doc 1", "Doc 10", ...), kept as the sequence of its digits: Python's  *)
(* sorted() orders such strings character by character.                    *)
(***************************************************************************)
PathDocIds == { <<1>>, <<2>>, <<3>>, <<1, 0>> }

PathMaxEdges == 4

\* s < t for Python strings.
RECURSIVE StrLess(_, _)
StrLess(s, t) ==
    IF t = <<>> THEN FALSE
    ELSE IF s = <<>> THEN TRUE
    ELSE IF Head(s) # Head(t) THEN Head(s) < Head(t)
    ELSE StrLess(Tail(s), Tail(t))

\* The number a digit string spells.
RECURSIVE DocNumber(_)
DocNumber(s) ==
    IF s = <<>> THEN 0 ELSE 10 * DocNumber(SubSeq(s, 1, Len(s) - 1)) + s[Len(s)]

\* sorted(cG.nodes[comp]["members"])[0]
Representative_bug(members) ==
    CHOOSE m \in members : \A o \in members : DocNumber(m) <= DocNumber(o)

Representative(members) ==
    CHOOSE m \in members : \A o \in members : m = o \/ StrLess(m, o)

\* The nodes that can be reached from the nodes of S.
RECURSIVE ReachFrom(_, _)
ReachFrom(S, edges) ==
    LET T == S \cup {e[2] : e \in {f \in edges : f[1] \in S}}
    IN  IF T = S THEN S ELSE ReachFrom(T, edges)

\* The strongly connected component of n.
SCCOf(n, nodes, edges) ==
    {m \in nodes : m \in ReachFrom({n}, edges) /\ n \in ReachFrom({m}, edges)}

\* nx.condensation(G): one node per strongly connected component (here the
\* component's set of members), one edge per pair of different components
\* that an edge of G joins.
Condensation(nodes, edges) ==
    [nodes |-> {SCCOf(n, nodes, edges) : n \in nodes},
     edges |-> {c \in {<<SCCOf(e[1], nodes, edges), SCCOf(e[2], nodes, edges)>> : e \in edges} :
                    c[1] # c[2]}]

Predecessors(v, C) == {u \in C.nodes : <<u, v>> \in C.edges}

MaxOfSet(S) == CHOOSE x \in S : \A y \in S : y <= x

\* nx.dag_longest_path, dist[v][0]: the length of the longest path ending in v.
RECURSIVE Dist(_, _)
Dist(v, C) ==
    IF Predecessors(v, C) = {} THEN 0
    ELSE 1 + MaxOfSet({Dist(u, C) : u \in Predecessors(v, C)})

\* nx.dag_longest_path, dist[v][1]: a predecessor on a longest path to v
\* (which of several is an order of iteration).
BestPredecessors(v, C) ==
    {u \in Predecessors(v, C) : Dist(u, C) + 1 = Dist(v, C)}

\* "while u != v: path.append(v); u = v; v = dist[v][1]": the path, last node first.
RECURSIVE BackChains(_, _)
BackChains(v, C) ==
    IF Predecessors(v, C) = {} THEN {<<v>>}
    ELSE UNION {{<<v>> \o q : q \in BackChains(u, C)} : u \in BestPredecessors(v, C)}

RECURSIVE Reversed(_)
Reversed(p) == IF p = <<>> THEN <<>> ELSE Append(Reversed(Tail(p)), Head(p))

\* path.reverse()
PathReverse_bug(p) == p

PathReverse(p) == Reversed(p)

\* nx.dag_longest_path(cG): every path the function may return.
DagLongestPaths(C) ==
    IF C.nodes = {} THEN {<<>>}
    ELSE LET top == MaxOfSet({Dist(v, C) : v \in C.nodes})
         IN  {PathReverse(q) :
                q \in UNION {BackChains(v, C) : v \in {w \in C.nodes : Dist(w, C) = top}}}

\* "for comp in comp_path: main_path.append(sorted(members)[0])"
Representatives(comp_path) ==
    [k \in 1..Len(comp_path) |-> Representative(comp_path[k])]

PathInit ==
    /\ path_pc = "input"
    /\ G_nodes \in SUBSET PathDocIds
    /\ G_edges \in {E \in SUBSET (G_nodes \X G_nodes) : Cardinality(E) <= PathMaxEdges}
    /\ main_path = <<>>

ComputeMainPath ==
    /\ path_pc = "input"
    /\ \E comp_path \in DagLongestPaths(Condensation(G_nodes, G_edges)) :
         main_path' = Representatives(comp_path)
    /\ path_pc' = "done"
    /\ UNCHANGED <<G_nodes, G_edges>>
    /\ UNCHANGED notPathVars

PathNext == ComputeMainPath

InitMainPath == PathInit /\ RelIdle /\ PartIdle /\ CiteIdle /\ SelIdle /\ OutputIdle

SpecMainPath == InitMainPath /\ [][PathNext]_vars

\* Two components joined by an edge of the condensation, from c1 to c2.
CondensationEdge(c1, c2) ==
    /\ c1 # c2
    /\ \E u \in c1, v \in c2 : <<u, v>> \in G_edges

ComponentOf(n) == SCCOf(n, G_nodes, G_edges)

HasCycle == \E n \in G_nodes : Cardinality(ComponentOf(n)) > 1

\* C5: on every finite digraph, cyclic or empty, compute_main_path returns,
\* and consecutive elements of the result represent two strongly connected
\* components joined, in path direction, by an edge of the condensation.
C5_MainPathWellDefined ==
    /\ path_pc = "input" => DagLongestPaths(Condensation(G_nodes, G_edges)) # {}
    /\ path_pc = "done" =>
         /\ \A k \in 1..Len(main_path) : main_path[k] \in G_nodes
         /\ \A k \in 1..(Len(main_path) - 1) :
              CondensationEdge(ComponentOf(main_path[k]), ComponentOf(main_path[k + 1]))
         /\ G_nodes = {} => main_path = <<>>

C5_Witness ==
    /\ path_pc = "done"
    /\ HasCycle
    /\ Len(main_path) >= 3

\* Every path of the condensation, as a sequence of components.
RECURSIVE CondensationPaths(_)
CondensationPaths(len) ==
    IF len = 1 THEN {<<ComponentOf(n)>> : n \in G_nodes}
    ELSE {q \in {Append(p, ComponentOf(n)) : p \in CondensationPaths(len - 1), n \in G_nodes} :
            CondensationEdge(q[len - 1], q[len])}

BackEdgeChain ==
    /\ G_nodes = PathDocIds
    /\ G_edges = { << <<1>>, <<2>> >>, << <<2>>, <<3>> >>, << <<3>>, <<1, 0>> >>,
                   << <<3>>, <<2>> >> }

\* C6: the result has one id per supernode of a longest path of the
\* condensation, in path order (no path of the condensation has more
\* supernodes), each id the lexicographically smallest member of its
\* component; a 4-node chain with a back-edge closing a 2-cycle gives 3 ids.
C6_LongestPathRepresentatives ==
    path_pc = "done" =>
        /\ \A len \in 1..Cardinality(G_nodes) :
             CondensationPaths(len) # {} => len <= Len(main_path)
        /\ \A j, k \in 1..Len(main_path) :
             j # k => ComponentOf(main_path[j]) # ComponentOf(main_path[k])
        /\ \A k \in 1..Len(main_path) :
             \A o \in ComponentOf(main_path[k]) : main_path[k] = o \/ StrLess(main_path[k], o)
        /\ BackEdgeChain => Len(main_path) = 3

C6_Witness ==
    /\ path_pc = "done"
    /\ BackEdgeChain
    /\ main_path = << <<1>>, <<2>>, <<1, 0>> >>

(***************************************************************************)
(* build_citation_network.  A string is the sequence of its characters.    *)
(* Document indices are 0 .. CiteDocs - 1 as in the code.                  *)
(***************************************************************************)
CiteDocs == 3

CiteMaxRefs == 2

DocIndex == 0..(CiteDocs - 1)

\* Letters and digits: what neither \W nor _ matches.
WordChars == {"a", "b", "c", "d", "A", "B"}

Whitespace == {" "}

TitleStrings == { <<"A", "b">>, <<"c">> }

\* The pieces of a References string between two ";".
RefSegments == { <<" ", "a", "B">>, <<"c", "-", "d">>, <<" ">> }

ScoreValues == {0, 90}

\* partial_ratio of two equal strings.
FullScore == 100

DefaultThreshold == 90

Thresholds == {0, DefaultThreshold}

\* best_tgt = None
NoTarget == -1

Lower(c) == IF c = "A" THEN "a" ELSE IF c = "B" THEN "b" ELSE c

\* text.lower()
ToLower(text) == [k \in 1..Len(text) |-> Lower(text[k])]

\* re.sub(r"[\W_]+", " ", text)
RECURSIVE SubNonWord(_, _)
SubNonWord(text, in_run) ==
    IF text = <<>> THEN <<>>
    ELSE IF Head(text) \in WordChars THEN <<Head(text)>> \o SubNonWord(Tail(text), FALSE)
    ELSE IF in_run THEN SubNonWord(Tail(text), TRUE)
    ELSE <<" ">> \o SubNonWord(Tail(text), TRUE)

\* re.sub(r"\s+", " ", text)
RECURSIVE SubSpaces(_, _)
SubSpaces(text, in_run) ==
    IF text = <<>> THEN <<>>
    ELSE IF Head(text) \notin Whitespace THEN <<Head(text)>> \o SubSpaces(Tail(text), FALSE)
    ELSE IF in_run THEN SubSpaces(Tail(text), TRUE)
    ELSE <<" ">> \o SubSpaces(Tail(text), TRUE)

RECURSIVE LStrip(_)
LStrip(text) ==
    IF text # <<>> /\ Head(text) \in Whitespace THEN LStrip(Tail(text)) ELSE text

\* str.strip()
StrStrip(text) == Reversed(LStrip(Reversed(LStrip(text))))

normalize(text) == StrStrip(SubSpaces(SubNonWord(ToLower(text), FALSE), FALSE))

NonEmpty(text) == text # <<>>

\* [r.strip() for r in refs.split(";") if r.strip()]
RECURSIVE RefList(_)
RefList(segments) ==
    IF segments = <<>> THEN <<>>
    ELSE IF NonEmpty(StrStrip(Head(segments)))
         THEN <<StrStrip(Head(segments))>> \o RefList(Tail(segments))
         ELSE RefList(Tail(segments))

\* A value of df["References"]: missing, or a string (its ";"-separated pieces).
RECURSIVE SeqsUpTo(_, _)
SeqsUpTo(S, n) ==
    IF n = 0 THEN {<<>>}
    ELSE SeqsUpTo(S, n - 1) \cup {Append(q, x) : q \in SeqsUpTo(S, n - 1), x \in S}

NoReferences == [nan |-> TRUE, segments |-> <<>>]

ReferenceValues ==
    {NoReferences}
        \cup {[nan |-> FALSE, segments |-> q] : q \in SeqsUpTo(RefSegments, CiteMaxRefs)}

NormTitleStrings == {normalize(t) : t \in TitleStrings}

NormRefStrings == {normalize(r) : r \in {StrStrip(x) : x \in RefSegments} \ {<<>>}}

\* The scores fuzz.partial_ratio may give to the pairs of different strings.
PartialRatioTables ==
    [{p \in NormRefStrings \X NormTitleStrings : p[1] # p[2]} -> ScoreValues]

Score(pr, norm_ref, nt) == IF norm_ref = nt THEN FullScore ELSE pr[<<norm_ref, nt>>]

\* "for j, nt in enumerate(norm_titles): if score > best_score: ..."
RECURSIVE FuzzyScan(_, _, _, _, _)
FuzzyScan(j, best_score, best_tgt, norm_ref, env) ==
    IF j = CiteDocs THEN <<best_score, best_tgt>>
    ELSE IF Score(env.pr, norm_ref, env.norm_titles[j]) > best_score
         THEN FuzzyScan(j + 1, Score(env.pr, norm_ref, env.norm_titles[j]), j, norm_ref, env)
         ELSE FuzzyScan(j + 1, best_score, best_tgt, norm_ref, env)

MinOfSet(S) == CHOOSE x \in S : \A y \in S : x <= y

\* The node one reference is linked to, or NoTarget.
MatchTarget_bug(norm_ref, env) ==
    IF \E j \in DocIndex : env.norm_titles[j] = norm_ref
    THEN MinOfSet({j \in DocIndex : env.norm_titles[j] = norm_ref})
    ELSE LET best == FuzzyScan(0, 0, NoTarget, norm_ref, env)
         IN  IF best[1] > env.threshold /\ best[2] # NoTarget THEN best[2] ELSE NoTarget

MatchTarget(norm_ref, env) ==
    IF \E j \in DocIndex : env.norm_titles[j] = norm_ref
    THEN MinOfSet({j \in DocIndex : env.norm_titles[j] = norm_ref})
    ELSE LET best == FuzzyScan(0, 0, NoTarget, norm_ref, env)
         IN  IF best[1] >= env.threshold /\ best[2] # NoTarget THEN best[2] ELSE NoTarget

MatchEnv == [norm_titles |-> [j \in DocIndex |-> normalize(titles[j])],
             threshold |-> threshold, pr |-> partial_ratio]

\* The edges one row adds, and its local_unmatched.
RowEdges(idx, ref_list, env) ==
    {<<idx, MatchTarget(normalize(ref_list[k]), env)>> :
        k \in {i \in 1..Len(ref_list) : MatchTarget(normalize(ref_list[i]), env) # NoTarget}}

LocalUnmatched(ref_list, env) ==
    LET NotMatched(ref) == MatchTarget(normalize(ref), env) = NoTarget
    IN  SelectSeq(ref_list, NotMatched)

SetItem(dict, key, value) ==
    [k \in DOMAIN dict \cup {key} |-> IF k = key THEN value ELSE dict[k]]

\* df.loc[i, "Doc ID"]: "Doc 1", "Doc 2", ...
DocIdOf(i) == <<i + 1>>

IndexOfDoc(d) == CHOOSE i \in DocIndex : DocIdOf(i) = d

CiteDocIds == {DocIdOf(i) : i \in DocIndex}

\* G.remove_edges_from(nx.selfloop_edges(G))
RemoveSelfLoops(G) == [G EXCEPT !.edges = {e \in @ : e[1] # e[2]}]

Degree(G, n) ==
    Cardinality({e \in G.edges : e[1] = n}) + Cardinality({e \in G.edges : e[2] = n})

Subgraph(G, keep) ==
    [nodes |-> G.nodes \cap keep,
     edges |-> {e \in G.edges : e[1] \in keep /\ e[2] \in keep}]

\* G.remove_nodes_from([n for n in G.nodes() if G.degree(n) == 0])
RemoveSingletons(G) == Subgraph(G, {n \in G.nodes : Degree(G, n) # 0})

Undirected(edges) == edges \cup {<<e[2], e[1]>> : e \in edges}

\* nx.weakly_connected_components(G)
WeakComponents(G) == {ReachFrom({n}, Undirected(G.edges)) : n \in G.nodes}

LargestComponents(G) ==
    {c \in WeakComponents(G) : \A o \in WeakComponents(G) : Cardinality(o) <= Cardinality(c)}

\* "if largest_only and G.number_of_nodes() > 0": max(comps, key=len) is the
\* first of the largest components, and components come in node order.
KeptNodes(G, largest_only) ==
    IF largest_only /\ G.nodes # {}
    THEN CHOOSE c \in LargestComponents(G) :
             \A o \in LargestComponents(G) : MinOfSet(c) <= MinOfSet(o)
    ELSE G.nodes

\* nx.relabel_nodes(G, mapping)
RelabelNodes(G, mapping) ==
    [nodes |-> {mapping[n] : n \in G.nodes},
     edges |-> {<<mapping[e[1]], mapping[e[2]]>> : e \in G.edges}]

\* {mapping[i]: refs for i, refs in unmatched.items() if i in mapping}
UnmatchedOut_bug(unm, nodes) == <<>>

UnmatchedOut(unm, nodes) ==
    [d \in {DocIdOf(i) : i \in DOMAIN unm \cap nodes} |-> unm[IndexOfDoc(d)]]

CiteInit ==
    /\ cite_pc = "match"
    /\ titles \in [DocIndex -> TitleStrings]
    /\ threshold \in Thresholds
    /\ partial_ratio \in PartialRatioTables
    /\ cite_idx = 0
    /\ cur_refs = NoReferences
    /\ cite_G = [nodes |-> DocIndex, edges |-> {}]
    /\ unmatched = <<>>
    /\ citation_network_documents = EmptyGraph
    /\ citation_main_path = Unset

\* One iteration of "for idx, refs in df["References"].items()".
ProcessDocument ==
    /\ cite_pc = "match"
    /\ cite_idx < CiteDocs
    /\ \E refs \in ReferenceValues :
         /\ cur_refs' = refs
         /\ IF refs.nan
            THEN UNCHANGED <<cite_G, unmatched>>
            ELSE LET ref_list == RefList(refs.segments)
                     local_unmatched == LocalUnmatched(ref_list, MatchEnv)
                 IN  /\ cite_G' = [cite_G EXCEPT
                                     !.edges = @ \cup RowEdges(cite_idx, ref_list, MatchEnv)]
                     /\ unmatched' = IF local_unmatched # <<>>
                                     THEN SetItem(unmatched, cite_idx, local_unmatched)
                                     ELSE unmatched
    /\ cite_idx' = cite_idx + 1
    /\ UNCHANGED <<cite_pc, titles, threshold, partial_ratio,
                   citation_network_documents, citation_main_path>>
    /\ UNCHANGED notCiteVars

\* Pruning, the largest component, relabelling to Doc ID, and the return.
FinishBuild ==
    /\ cite_pc = "match"
    /\ cite_idx = CiteDocs
    /\ \E largest_only \in BOOLEAN :
         LET pruned == RemoveSingletons(RemoveSelfLoops(cite_G))
             keep == KeptNodes(pruned, largest_only)
         IN  /\ cite_G' = RelabelNodes(Subgraph(pruned, keep), [i \in DocIndex |-> DocIdOf(i)])
             /\ unmatched' = UnmatchedOut(unmatched, keep)
    /\ cite_pc' = "built"
    \* return: the parameters and locals of the call go out of scope
    /\ threshold' = 0 /\ partial_ratio' = <<>> /\ cite_idx' = 0
    /\ cur_refs' = NoReferences
    /\ UNCHANGED <<titles, citation_network_documents, citation_main_path>>
    /\ UNCHANGED notCiteVars

ShortLabels == {"L1", "L2"}

\* id_short_label_dict: 'FirstAuthor, AbbreviatedSourceTitle (Year)'.
ShortLabelDicts == [CiteDocIds -> ShortLabels]

\* title.strip().split(): the words of a title.
RECURSIVE SplitWords(_, _)
SplitWords(text, word) ==
    IF text = <<>> THEN (IF word = <<>> THEN <<>> ELSE <<word>>)
    ELSE IF Head(text) \in Whitespace
         THEN (IF word = <<>> THEN <<>> ELSE <<word>>) \o SplitWords(Tail(text), <<>>)
         ELSE SplitWords(Tail(text), Append(word, Head(text)))

\* " ".join(words)
RECURSIVE JoinWords(_)
JoinWords(words) ==
    IF words = <<>> THEN <<>>
    ELSE IF Len(words) = 1 THEN Head(words)
    ELSE Head(words) \o <<" ">> \o JoinWords(Tail(words))

extract_first_three_words(title) ==
    JoinWords(SubSeq(SplitWords(title, <<>>), 1, MinOf(3, Len(SplitWords(title, <<>>)))))

\* id_label_dict: the short label, ": " and the first three words of the title.
LabelDict(short) ==
    [d \in CiteDocIds |-> <<short[d], extract_first_three_words(titles[IndexOfDoc(d)])>>]

\* compute_main_path(G): every list it may return.
MainPaths(G) ==
    {Representatives(cp) : cp \in DagLongestPaths(Condensation(G.nodes, G.edges))}

\* BiblioStats.build_citation_network, after utilsbib.build_citation_network
\* has returned: the main path, then the relabelling of graph and path.
StoreCitationNetwork ==
    /\ cite_pc = "built"
    /\ \E want_path \in BOOLEAN, rename \in {"short", "long", "none"}, short \in ShortLabelDicts :
         \E path \in (IF want_path THEN MainPaths(cite_G) ELSE {<<>>}) :
           LET d == IF rename = "short" THEN short ELSE LabelDict(short)
               computed == IF want_path THEN [set |-> TRUE, value |-> path]
                           ELSE citation_main_path
           IN  IF rename = "none"
               THEN /\ citation_network_documents' = cite_G
                    /\ citation_main_path' = computed
                    /\ cite_pc' = "stored"
               ELSE /\ citation_network_documents' = RelabelNodes(cite_G, d)
                    /\ IF computed.set
                       THEN /\ citation_main_path' =
                                 [set |-> TRUE,
                                  value |-> [k \in 1..Len(computed.value) |-> d[computed.value[k]]]]
                            /\ cite_pc' = "stored"
                       ELSE /\ citation_main_path' = computed
                            /\ cite_pc' = "raised"
    /\ UNCHANGED <<titles, threshold, partial_ratio, cite_idx, cur_refs, cite_G, unmatched>>
    /\ UNCHANGED notCiteVars

CiteNext == ProcessDocument \/ FinishBuild \/ StoreCitationNetwork

InitCitation == CiteInit /\ RelIdle /\ PartIdle /\ PathIdle /\ SelIdle /\ OutputIdle

SpecCitation == InitCitation /\ [][CiteNext]_vars

\* The target a reference may be given under the stated rule: a title equal
\* to it after normalization, else a best-scoring title when the best score
\* reaches the threshold, else none.
BestScore(norm_ref, env) ==
    MaxOfSet({Score(env.pr, norm_ref, env.norm_titles[j]) : j \in DocIndex})

StatedTargets(norm_ref, env) ==
    IF \E j \in DocIndex : env.norm_titles[j] = norm_ref
    THEN {j \in DocIndex : env.norm_titles[j] = norm_ref}
    ELSE IF BestScore(norm_ref, env) >= env.threshold
         THEN {j \in DocIndex : Score(env.pr, norm_ref, env.norm_titles[j]) = BestScore(norm_ref, env)}
         ELSE {NoTarget}

\* The same rule with the two points the code adds: the first of several
\* candidate titles is taken, and a best score of zero is never a match.
CodeTargets(norm_ref, env) ==
    IF \E j \in DocIndex : env.norm_titles[j] = norm_ref
    THEN {MinOfSet({j \in DocIndex : env.norm_titles[j] = norm_ref})}
    ELSE IF BestScore(norm_ref, env) >= env.threshold /\ BestScore(norm_ref, env) > 0
         THEN {MinOfSet({j \in DocIndex :
                   Score(env.pr, norm_ref, env.norm_titles[j]) = BestScore(norm_ref, env)})}
         ELSE {NoTarget}

RowProcessed == cite_pc = "match" /\ cite_idx' = cite_idx + 1 /\ ~cur_refs'.nan

\* The row processed last, and the nodes it has edges to.
LastRow == cite_idx - 1

LinkedFrom(idx) == {e[2] : e \in {x \in cite_G.edges : x[1] = idx}}

\* The row's edges are those of one choice of a target, or of none, from
\* Targets for each of its references.
RowFollows(Targets(_, _), ref_list, env) ==
    \E f \in [1..Len(ref_list) -> DocIndex \cup {NoTarget}] :
       /\ \A k \in 1..Len(ref_list) : f[k] \in Targets(normalize(ref_list[k]), env)
       /\ LinkedFrom(LastRow) = {f[k] : k \in 1..Len(ref_list)} \ {NoTarget}

SelfLoops(G) == {e \in G.edges : e[1] = e[2]}

\* C8 (as stated): the citation graph has no self-loop, both as returned by
\* utilsbib.build_citation_network and after BiblioStats.build_citation_network
\* relabelled its nodes to short or long display labels.
C8_NoSelfLoops ==
    /\ cite_pc = "built" => SelfLoops(cite_G) = {}
    /\ cite_pc \in {"stored", "raised"} => SelfLoops(citation_network_documents) = {}

\* What holds of C8: the graph utilsbib.build_citation_network returns, and
\* the one BiblioStats stores without renaming, have no self-loop.
C8_NoSelfLoopsBeforeRenaming ==
    /\ cite_pc = "built" => SelfLoops(cite_G) = {}
    /\ cite_pc \in {"stored", "raised"} => SelfLoops(cite_G) = {}

BuildReturned == cite_pc = "match" /\ cite_pc' = "built"

SelMaxDocs == 2

SelMaxParts == 2

SelItems == {"A", "B", "Z"}

SelCounts == {1, 2}

TopNs == {1, 2}

NaN == [nan |-> TRUE, parts |-> <<>>]

ListValues ==
    {NaN} \cup {[nan |-> FALSE, parts |-> q] : q \in SeqsUpTo(SelItems, SelMaxParts) \ {<<>>}}

\* top_items_df: None, or the candidate items with their "Number of documents".
NoTable == [given |-> FALSE, counts |-> <<>>]

TopTables ==
    {NoTable} \cup {[given |-> TRUE, counts |-> c] : c \in [SelItems -> SelCounts] \cup [{"A"} -> {1}]}

\* top_n when the caller does not pass it.
DefaultTopN == 20

\* regex_include / regex_exclude: None, or a pattern, given by the candidate
\* items that str.contains(pattern) accepts.
NoRegex == [given |-> FALSE, matches |-> {}]

Regexes == {NoRegex, [given |-> TRUE, matches |-> {"A", "B"}]}

RECURSIVE Factorial(_)
Factorial(n) == IF n <= 1 THEN 1 ELSE n * Factorial(n - 1)

\* A common denominator of 1/total for every total up to SelMaxParts.
FracUnit == Factorial(SelMaxParts)

\* The rows selected from top_items_df: all of them if there are at most
\* top_n, else those at or above the criterion of the top_n-th sorted row.
TopItems(counts, top_n) ==
    IF Cardinality(DOMAIN counts) <= top_n THEN DOMAIN counts
    ELSE LET cutoff == CHOOSE v \in {counts[i] : i \in DOMAIN counts} :
                          /\ Cardinality({i \in DOMAIN counts : counts[i] > v}) < top_n
                          /\ Cardinality({i \in DOMAIN counts : counts[i] >= v}) >= top_n
         IN  {i \in DOMAIN counts : counts[i] >= cutoff}

\* filtered_df: the candidates left by regex_include and regex_exclude.
Restrict(counts, items) == [i \in DOMAIN counts \cap items |-> counts[i]]

FilteredCounts(counts, regex_include, regex_exclude) ==
    LET included == IF regex_include.given
                    THEN Restrict(counts, regex_include.matches) ELSE counts
    IN  IF regex_exclude.given
        THEN Restrict(included, DOMAIN included \ regex_exclude.matches) ELSE included

\* The vocabulary taken from top_items_df: every filtered candidate if a
\* regex was given, else the top_n cut.
DerivedItems(table, top_n, regex_include, regex_exclude) ==
    IF regex_include.given \/ regex_exclude.given
    THEN DOMAIN FilteredCounts(table.counts, regex_include, regex_exclude)
    ELSE TopItems(FilteredCounts(table.counts, regex_include, regex_exclude), top_n)

\* items_of_interest = list(set(items_of_interest) - set(exclude_items))
Vocabulary(explicit, exclude_items, table, top_n, regex_include, regex_exclude) ==
    (IF explicit # {} THEN explicit
     ELSE DerivedItems(table, top_n, regex_include, regex_exclude)) \ exclude_items

Range(q) == {q[k] : k \in 1..Len(q)}

\* One pass of "for idx, val in df[col].items()": the rows that hold item.
MatchedRows(docs, item) ==
    LET Holds(idx) == ~docs[idx + 1].nan /\ item \in Range(docs[idx + 1].parts)
    IN  SelectSeq([k \in 1..Len(docs) |-> k - 1], Holds)

\* match_indices as match_items_and_compute_binary_indicators returns it.
HelperMatchIndices(docs, vocabulary) ==
    [item \in vocabulary |-> MatchedRows(docs, item)]

\* indicator_01 of match_items_and_compute_binary_indicators: the mask of
\* the matched rows, np.nan in the rows whose value is missing, and
\* fillna(0) if missing_as_zero.
HelperBinaryIndicator(docs, vocabulary, indices, missing_as_zero) ==
    [k \in 1..Len(docs) |->
        [item \in vocabulary |->
            IF docs[k].nan THEN (IF missing_as_zero THEN 0 ELSE np_nan)
            ELSE IF (k - 1) \in Range(indices[item]) THEN 1 ELSE 0]]

\* match_items_and_compute_binary_indicators fills the lists, and the loop
\* of select_documents appends to them once more.
MatchIndices(docs, vocabulary) ==
    [item \in vocabulary |-> MatchedRows(docs, item) \o MatchedRows(docs, item)]

\* indicator_01[item] = df.index.isin(match_indices[item]).astype(float)
BinaryIndicator(docs, vocabulary, indices) ==
    [k \in 1..Len(docs) |->
        [item \in vocabulary |-> IF (k - 1) \in Range(indices[item]) THEN 1 ELSE 0]]

Occurrences(parts, item) == Cardinality({p \in 1..Len(parts) : parts[p] = item})

\* "for p in parts: if p in items_of_interest: indicator_frac.at[idx, p] += 1 / total"
FractionalIndicator_bug(docs, vocabulary) ==
    [k \in 1..Len(docs) |->
        [item \in vocabulary |->
            IF docs[k].nan \/ Occurrences(docs[k].parts, item) = 0 THEN 0
            ELSE Occurrences(docs[k].parts, item)
                   * (FracUnit \div Cardinality({p \in 1..Len(docs[k].parts) :
                                                    docs[k].parts[p] \in vocabulary}))]]

FractionalIndicator(docs, vocabulary) ==
    [k \in 1..Len(docs) |->
        [item \in vocabulary |->
            IF docs[k].nan THEN 0
            ELSE Occurrences(docs[k].parts, item) * (FracUnit \div Len(docs[k].parts))]]

\* count_occurrences(count_type="list"): Counter over the flattened lists
\* of the values that are not missing; its values are the column
\* "Number of documents".
RECURSIVE SumSeq(_)
SumSeq(q) == IF q = <<>> THEN 0 ELSE Head(q) + SumSeq(Tail(q))

Flattened(docs) ==
    UNION {Range(docs[k].parts) : k \in {i \in 1..Len(docs) : ~docs[i].nan}}

CountOccurrencesList(docs) ==
    [item \in Flattened(docs) |->
        SumSeq([k \in 1..Len(docs) |->
                   IF docs[k].nan THEN 0 ELSE Occurrences(docs[k].parts, item)])]

\* The arguments of a call of select_documents.
SelectArgs ==
    {[explicit |-> e, exclude_items |-> x, table |-> NoTable, top_n |-> DefaultTopN,
      regex_include |-> NoRegex, regex_exclude |-> NoRegex,
      indicators |-> i, missing_as_zero |-> z] :
        e \in (SUBSET SelItems) \ {{}}, x \in SUBSET {"B"}, i \in BOOLEAN, z \in BOOLEAN}
    \cup
    {[explicit |-> {}, exclude_items |-> x, table |-> t, top_n |-> n,
      regex_include |-> ri, regex_exclude |-> re,
      indicators |-> i, missing_as_zero |-> z] :
        x \in SUBSET {"B"}, t \in TopTables \ {NoTable}, n \in TopNs,
        ri \in Regexes, re \in Regexes, i \in BOOLEAN, z \in BOOLEAN}
    \cup
    {[explicit |-> {}, exclude_items |-> {}, table |-> NoTable, top_n |-> DefaultTopN,
      regex_include |-> NoRegex, regex_exclude |-> NoRegex,
      indicators |-> i, missing_as_zero |-> FALSE] : i \in BOOLEAN}

\* The arguments of a direct call of match_items_and_compute_binary_indicators.
MatchArgs ==
    {[explicit |-> e, exclude_items |-> {}, table |-> NoTable, top_n |-> DefaultTopN,
      regex_include |-> NoRegex, regex_exclude |-> NoRegex,
      indicators |-> i, missing_as_zero |-> z] :
        e \in SUBSET SelItems, i \in BOOLEAN, z \in BOOLEAN}

SelInit ==
    /\ sel_pc = "input"
    /\ sel_docs = <<>>
    /\ items_of_interest = {}
    /\ match_indices = <<>>
    /\ indicators_dict = <<>>
    /\ sel_args = <<>>
    /\ occurrence_counts = [given |-> FALSE, counts |-> <<>>]

\* The caller's data frame gets one more row.
AddRow ==
    /\ sel_pc = "input"
    /\ ~occurrence_counts.given
    /\ Len(sel_docs) < SelMaxDocs
    /\ \E val \in ListValues : sel_docs' = Append(sel_docs, val)
    /\ UNCHANGED <<sel_pc, items_of_interest, match_indices, indicators_dict,
                   sel_args, occurrence_counts>>
    /\ UNCHANGED notSelVars

\* count_occurrences(df, col, count_type="list") on the same column.
CountOccurrences ==
    /\ sel_pc = "input"
    /\ ~occurrence_counts.given
    /\ occurrence_counts' = [given |-> TRUE, counts |-> CountOccurrencesList(sel_docs)]
    /\ UNCHANGED <<sel_pc, sel_docs, items_of_interest, match_indices, indicators_dict,
                   sel_args>>
    /\ UNCHANGED notSelVars

\* A direct call of match_items_and_compute_binary_indicators.
MatchItems ==
    /\ sel_pc = "input"
    /\ \E args \in MatchArgs :
         LET indices == HelperMatchIndices(sel_docs, args.explicit)
         IN  /\ sel_args' = args
             /\ items_of_interest' = args.explicit
             /\ match_indices' = indices
             /\ indicators_dict' =
                   IF ~args.indicators THEN <<>>
                   ELSE [m \in {"binary"} |->
                           HelperBinaryIndicator(sel_docs, args.explicit, indices,
                                                 args.missing_as_zero)]
    /\ sel_pc' = "matched"
    /\ UNCHANGED <<sel_docs, occurrence_counts>>
    /\ UNCHANGED notSelVars

\* The return of select_documents once the vocabulary is fixed.
SelectReturns(vocabulary, indicators) ==
    LET indices == MatchIndices(sel_docs, vocabulary)
    IN  /\ sel_pc' = "returned"
        /\ items_of_interest' = vocabulary
        /\ match_indices' = indices
        /\ indicators_dict' =
              IF ~indicators THEN <<>>
              ELSE [m \in {"binary", "fractional"} |->
                      IF m = "binary"
                      THEN BinaryIndicator(sel_docs, vocabulary, indices)
                      ELSE FractionalIndicator(sel_docs, vocabulary)]

SelectDocuments ==
    /\ sel_pc = "input"
    /\ \E args \in SelectArgs :
         /\ sel_args' = args
         /\ IF args.explicit = {} /\ ~args.table.given
            THEN \* raise ValueError("top_items_df and top_items_col are required ...")
                 /\ sel_pc' = "raised"
                 /\ UNCHANGED <<items_of_interest, match_indices, indicators_dict>>
            ELSE SelectReturns(Vocabulary(args.explicit, args.exclude_items, args.table,
                                          args.top_n, args.regex_include, args.regex_exclude),
                               args.indicators)
    /\ UNCHANGED <<sel_docs, occurrence_counts>>
    /\ UNCHANGED notSelVars

SelNext == AddRow \/ CountOccurrences \/ MatchItems \/ SelectDocuments

InitSelect == SelInit /\ RelIdle /\ PartIdle /\ PathIdle /\ CiteIdle /\ OutputIdle

SpecSelect == InitSelect /\ [][SelNext]_vars

RECURSIVE SumOver(_, _)
SumOver(row, cols) ==
    IF cols = {} THEN 0
    ELSE LET c == CHOOSE x \in cols : TRUE IN row[c] + SumOver(row, cols \ {c})

RowSum(row) == SumOver(row, DOMAIN row)

FractionalReturned == sel_pc = "returned" /\ "fractional" \in DOMAIN indicators_dict

\* The entries of a document's list that belong to the vocabulary.
InVocabulary(val) == {p \in 1..Len(val.parts) : val.parts[p] \in items_of_interest}

\* C10 (as stated): every row of the fractional indicator matrix sums to 1
\* if the document has at least one item of the target vocabulary and to 0
\* otherwise, for any vocabulary and any document item list.
C10_Original ==
    FractionalReturned =>
        \A k \in 1..Len(sel_docs) :
            RowSum(indicators_dict["fractional"][k]) =
                IF ~sel_docs[k].nan /\ InVocabulary(sel_docs[k]) # {} THEN FracUnit ELSE 0

\* C10 (amended): every entry of a row is the number of times the item is in
\* the document's list divided by the length of the whole list, so a row
\* sums to the share of the list's entries that belong to the vocabulary:
\* to 1 if all of them do, to 0 if none does or the value is missing.
C10_FractionalRowSums ==
    FractionalReturned =>
        \A k \in 1..Len(sel_docs) :
            LET row == indicators_dict["fractional"][k]
                val == sel_docs[k]
            IN  /\ DOMAIN row = items_of_interest
                /\ val.nan => RowSum(row) = 0
                /\ ~val.nan =>
                     /\ \A item \in items_of_interest :
                            row[item] * Len(val.parts) = FracUnit * Occurrences(val.parts, item)
                     /\ RowSum(row) * Len(val.parts) = FracUnit * Cardinality(InVocabulary(val))
                     /\ InVocabulary(val) = 1..Len(val.parts) => RowSum(row) = FracUnit
                     /\ InVocabulary(val) = {} => RowSum(row) = 0

\* A matrix with a row that sums to 1 (a list {A, B} within the vocabulary,
\* one half each) and a row whose list is only partly in the vocabulary.
C10_Witness ==
    /\ FractionalReturned
    /\ \E k \in 1..Len(sel_docs) :
          /\ ~sel_docs[k].nan /\ Len(sel_docs[k].parts) = 2
          /\ sel_docs[k].parts[1] # sel_docs[k].parts[2]
          /\ RowSum(indicators_dict["fractional"][k]) = FracUnit
    /\ \E k \in 1..Len(sel_docs) :
          /\ ~sel_docs[k].nan
          /\ InVocabulary(sel_docs[k]) \notin {{}, 1..Len(sel_docs[k].parts)}

BinaryReturned ==
    sel_pc \in {"returned", "matched"} /\ "binary" \in DOMAIN indicators_dict

\* DataFrame.sum() of one column (missing entries are skipped).
BinaryColumnSum(matrix, item) ==
    SumSeq([k \in 1..Len(matrix) |-> IF matrix[k][item] = np_nan THEN 0 ELSE matrix[k][item]])

\* The count of an item in the table of count_occurrences (0 if it has no row).
NumberOfDocuments(item) ==
    IF item \in DOMAIN occurrence_counts.counts THEN occurrence_counts.counts[item] ELSE 0

\* C11 (as stated): for any document set and list-type column, the column sum
\* of each item in the binary indicator matrix of select_documents equals
\* the item's "Number of documents" computed by count_occurrences
\* (count_type="list") on the same column.
C11_ColumnSumsEqualCounts ==
    (sel_pc = "returned" /\ BinaryReturned /\ occurrence_counts.given) =>
        \A item \in items_of_interest :
            BinaryColumnSum(indicators_dict["binary"], item) = NumberOfDocuments(item)

MissingRows == {k \in 1..Len(sel_docs) : sel_docs[k].nan}

\* C12 (as stated): with missing_as_zero=False every entry of the binary
\* indicator matrix in the row of a document whose source value is missing is
\* NaN, with missing_as_zero=True it is 0; for select_documents and for
\* match_items_and_compute_binary_indicators.
C12_MissingRowsUnresolved ==
    BinaryReturned =>
        \A k \in MissingRows : \A item \in items_of_interest :
            indicators_dict["binary"][k][item] =
                IF sel_args.missing_as_zero THEN 0 ELSE np_nan

\* What holds of C12: the matrix of match_items_and_compute_binary_indicators
\* follows missing_as_zero, the one of select_documents has 0 in both cases.
C12_HelperOnly ==
    BinaryReturned =>
        \A k \in MissingRows : \A item \in items_of_interest :
            indicators_dict["binary"][k][item] =
                IF sel_pc = "matched" /\ ~sel_args.missing_as_zero THEN np_nan ELSE 0

\* C13 (as stated): with an empty target vocabulary select_documents with
\* indicators=True returns indicator frames with zero rows and the empty
\* vocabulary as columns, and does not raise.
C13_EmptyVocabularyEmptyFrames ==
    /\ (sel_pc = "returned" /\ sel_args.indicators /\ items_of_interest = {}) =>
          \A m \in DOMAIN indicators_dict : Len(indicators_dict[m]) = 0
    /\ (sel_pc = "raised" /\ sel_args.indicators) => sel_args.explicit # {}

\* The candidates of the frequency table that pass the regex filters.
Candidates ==
    {i \in DOMAIN sel_args.table.counts :
        /\ sel_args.regex_include.given => i \in sel_args.regex_include.matches
        /\ sel_args.regex_exclude.given => i \notin sel_args.regex_exclude.matches}

\* C14 (as stated): a vocabulary derived from a frequency table is the top-N
\* most frequent candidates: exactly min(top_n, number of candidates) items,
\* none of the unselected candidates more frequent than a selected one, the
\* regex filters only narrowing the candidates before the cut.
C14_TopNVocabulary ==
    (sel_pc = "returned" /\ sel_args.explicit = {} /\ sel_args.exclude_items = {}) =>
        /\ items_of_interest \subseteq Candidates
        /\ Cardinality(items_of_interest) = MinOf(sel_args.top_n, Cardinality(Candidates))
        /\ \A u \in Candidates \ items_of_interest : \A v \in items_of_interest :
               sel_args.table.counts[u] <= sel_args.table.counts[v]

(***************************************************************************)
(* compute_relation_matrix: the try blocks, pmi, and the matrix the        *)
(* normalizations are computed from.                                       *)
(***************************************************************************)
\* The relation matrix df1.T @ df2 of the call.
RawRelation == MatMulT(df1, Df2Of(df1, df2), ColsB(df2))

\* The block of the measure is the one that was made to raise.
OwnComputationRaises(measure) ==
    IF measure = "yule_q" THEN rel_args.fault \in {"yule_q_early", "yule_q_late"}
    ELSE rel_args.fault = measure

\* C15 (as stated): with normalization=True the normalizations are computed
\* independently: when the computation of one measure raises, the call
\* still returns, that measure is absent from the result and every other
\* measure is present.
C15_IndependentNormalizations ==
    (rel_pc \in {"returned", "raised"} /\ rel_args.normalization /\ ~rel_args.pmi) =>
        /\ rel_pc = "returned"
        /\ \A measure \in Measures :
              measure \in DOMAIN normalized_matrices <=> ~OwnComputationRaises(measure)

\* C16: a call with pmi=True and a second matrix that differs from the first
\* raises ValueError and returns no relation matrix; with the second matrix
\* omitted or equal to the first the call returns.
C16_PmiNeedsSameFrame ==
    (rel_pc \in {"returned", "raised"} /\ rel_args.pmi) =>
        /\ rel_pc = "raised" <=> rel_args.second = "other"
        /\ rel_pc = "raised" =>
              relation = <<>> /\ normalized_matrices = <<>> /\ all_measures_df = <<>>
        /\ rel_pc = "returned" => DOMAIN relation = ItemsA \X ItemsA

C16_Witness ==
    /\ rel_pc = "raised"
    /\ rel_args.pmi
    /\ df2.given
    /\ Len(df1) >= 2
    /\ \E k \in 1..Len(df1) : df1[k]["A"] = 1

\* C17 (as stated): every normalized variant returned and the "count" column
\* of the all-measures table are derived from the raw relation matrix
\* R = df1.T @ df2 and the marginal sums, also when pmi=True.
C17_DerivedFromRawRelation ==
    (rel_pc = "returned" /\ rel_args.fault = "none") =>
        /\ all_measures_df.count = RawRelation
        /\ rel_args.normalization =>
              normalized_matrices = NormalizedMatrices(df1, df2, RawRelation)

\* Without pmi the normalized variants and the count column are those of
\* the raw relation matrix.
C17_WithoutPmi ==
    (rel_pc = "returned" /\ rel_args.fault = "none" /\ ~rel_args.pmi) =>
        /\ all_measures_df.count = RawRelation
        /\ rel_args.normalization =>
              normalized_matrices = NormalizedMatrices(df1, df2, RawRelation)

(***************************************************************************)
(* BiblioStats.compute_cooccurrence, from the binary indicator matrix on:  *)
(* the co-occurrence network is built by compute_relation_matrix, its      *)
(* self-loops are removed, then add_partitions, the vector attributes and  *)
(* save_network follow.  An undirected edge is the set of its end nodes,   *)
(* a self-loop a set of one node.                                          *)
(***************************************************************************)
CoMaxDocs == 3

\* nx.from_pandas_adjacency(relation): an edge for every nonzero entry.
FromPandasAdjacency(R) ==
    [nodes |-> ItemsA,
     edges |-> {{p[1], p[2]} : p \in {q \in DOMAIN R : R[q] # 0}}]

\* nx.selfloop_edges(G).
SelfloopEdges_bug(G) == {}

SelfloopEdges(G) == {e \in G.edges : Cardinality(e) = 1}

\* G.remove_edges_from(ebunch).
RemoveEdgesFrom(G, ebunch) == [G EXCEPT !.edges = @ \ ebunch]

\* G.subgraph(nodes_to_keep).copy().
UndirectedSubgraph(G, nodes_to_keep) ==
    [nodes |-> G.nodes \cap nodes_to_keep,
     edges |-> {e \in G.edges : e \subseteq nodes_to_keep}]

NoVectorDf == [given |-> FALSE, nodes |-> {}]

\* network, partition_network, vector_df with vector_cols (the nodes it
\* lists), and network_filename with res_folder (given or None).
CoArgs ==
    [network : BOOLEAN, partition_network : BOOLEAN,
     vector_df : {NoVectorDf, [given |-> TRUE, nodes |-> {"A", "B"}]},
     network_filename : BOOLEAN]

\* A function of utilsbib that was not called, and one called with the graph G.
NotCalled == [called |-> FALSE, edges |-> {}]

CalledWith(G) == [called |-> TRUE, edges |-> G.edges]

\* The names of the items: a name is kept as the text before its first " ("
\* and the text from there on ("" if it has no " (").
PlainNames ==
    [A |-> [head |-> "Kim S", tail |-> ""], B |-> [head |-> "Lee J", tail |-> ""],
     C |-> [head |-> "Park H", tail |-> ""]]

AffiliatedNames ==
    [A |-> [head |-> "Kim S", tail |-> " (Seoul)"], B |-> [head |-> "Kim S", tail |-> " (Busan)"],
     C |-> [head |-> "Lee J", tail |-> ""]]

\* x.split(" (")[0]
SplitParen(x) == x.head

\* nx.relabel_nodes(G, lambda x: x.split(" (")[0]): nodes that get the same
\* label become one node, an edge between them a self-loop.
CoRelabelNodes(G, names) ==
    [nodes |-> {SplitParen(names[n]) : n \in G.nodes},
     edges |-> {{SplitParen(names[n]) : n \in e} : e \in G.edges}]

CoInit ==
    /\ co_pc = "input"
    /\ binary_matrix = <<>>
    /\ item_names \in {PlainNames, AffiliatedNames}
    /\ co_args = <<>>
    /\ co_network = <<>>
    /\ partitions_saw = NotCalled
    /\ save_saw = NotCalled

\* One more document in the data frame select_documents is run on.
CoAddDocument ==
    /\ co_pc = "input"
    /\ Len(binary_matrix) < CoMaxDocs
    /\ \E row \in BinaryRows(ItemsA) : binary_matrix' = Append(binary_matrix, row)
    /\ UNCHANGED <<co_pc, item_names, co_args, co_network, partitions_saw, save_saw>>
    /\ UNCHANGED notCoVars

ComputeCooccurrence ==
    /\ co_pc = "input"
    /\ \E args \in CoArgs :
         LET co_matrix == MatMulT(binary_matrix, binary_matrix, ItemsA)
             built == FromPandasAdjacency(co_matrix)
             stripped == RemoveEdgesFrom(built, SelfloopEdges(built))
             kept == IF args.vector_df.given
                     THEN UndirectedSubgraph(stripped, args.vector_df.nodes)
                     ELSE stripped
         IN  /\ co_args' = args
             /\ IF ~args.network
                THEN \* co_network is None: AttributeError at remove_edges_from
                     /\ co_pc' = "raised"
                     /\ UNCHANGED <<co_network, partitions_saw, save_saw>>
                ELSE /\ co_pc' = "returned"
                     /\ partitions_saw' =
                           IF args.partition_network THEN CalledWith(stripped) ELSE NotCalled
                     /\ save_saw' =
                           IF args.network_filename THEN CalledWith(kept) ELSE NotCalled
                     /\ co_network' = CoRelabelNodes(kept, item_names)
    /\ UNCHANGED <<binary_matrix, item_names>>
    /\ UNCHANGED notCoVars

CoNext == CoAddDocument \/ ComputeCooccurrence

InitCooccurrence ==
    CoInit /\ RelIdle /\ PartIdle /\ PathIdle /\ CiteIdle /\ SelIdle /\ HistIdle /\ PajIdle /\ ZmIdle /\ DispIdle /\ GmIdle /\ RcIdle

SpecCooccurrence == InitCooccurrence /\ [][CoNext]_vars

\* C18: the self-loops of the co-occurrence graph are removed before
\* add_partitions runs and before save_network exports the graph: neither
\* is ever called with a graph that has a self-loop edge (and neither is
\* called when the call raises).
C18_NoSelfLoopSeen ==
    /\ co_pc \in {"returned", "raised"} =>
          /\ \A e \in partitions_saw.edges : Cardinality(e) = 2
          /\ \A e \in save_saw.edges : Cardinality(e) = 2
    /\ co_pc = "raised" => ~partitions_saw.called /\ ~save_saw.called

C18_Witness ==
    /\ co_pc = "returned"
    /\ partitions_saw.called /\ save_saw.called
    /\ \E k \in 1..Len(binary_matrix) : binary_matrix[k]["A"] = 1 /\ binary_matrix[k]["B"] = 1
    /\ {"A", "B"} \in partitions_saw.edges
    /\ {"A", "B"} \in save_saw.edges

(***************************************************************************)
(* build_historiograph.  The documents have distinct titles and labels; a  *)
(* node is written as the number of its document.  The references of a    *)
(* document are kept as the candidate titles extract_reference_titles      *)
(* takes from them, and the similarity of difflib as a table over the      *)
(* candidates and the lower-cased titles.  An edge <<u, v>> is the edge    *)
(* u -> v of the DiGraph.                                                  *)
(***************************************************************************)
HistDocs == {1, 2, 3}

HistMaxRefs == 2

\* title.lower() of every document.
HistTitle == <<"t1", "t2", "t3">>

\* Candidate titles: the three titles, a misspelt first title, another text.
HistCandidates == {"t1", "t2", "t3", "t1x", "zz"}

DefaultCutoff == 85

HistCutoffs == {DefaultCutoff, 95}

\* SequenceMatcher(...).ratio() in percent.
HistRatio(candidate, title) ==
    IF candidate = title THEN 100
    ELSE IF candidate = "t1x" /\ title = "t1" THEN 90
    ELSE 0

\* approximate_match: the closest title at or above the cutoff, or None ("").
approximate_match(ref_title, keys, cutoff) ==
    LET close == {t \in keys : HistRatio(ref_title, t) >= cutoff}
    IN  IF close = {} THEN ""
        ELSE CHOOSE t \in close : \A o \in close : HistRatio(ref_title, o) <= HistRatio(ref_title, t)

\* title_map: every title; label_map: the titles of the documents with a year.
TitleMap == {HistTitle[d] : d \in HistDocs}

LabelMap(year) == [t \in {HistTitle[d] : d \in {x \in HistDocs : year[x]}} |->
                      CHOOSE d \in HistDocs : HistTitle[d] = t]

\* G.add_edge(cited_label, citing_label) for every matched reference.
AddedEdge_bug(cited_label, citing_label) == <<citing_label, cited_label>>

AddedEdge(cited_label, citing_label) == <<cited_label, citing_label>>

HistoriographEdges(year, refs, cutoff) ==
    LET label_map == LabelMap(year)
    IN  {AddedEdge(label_map[approximate_match(pr[2], TitleMap, cutoff)], pr[1]) :
            pr \in {q \in HistDocs \X HistCandidates :
                       /\ year[q[1]]
                       /\ q[2] \in refs[q[1]]
                       /\ approximate_match(q[2], TitleMap, cutoff) \in DOMAIN label_map
                       /\ label_map[approximate_match(q[2], TitleMap, cutoff)] # q[1]}}

HistInit ==
    /\ hist_pc = "input"
    /\ hist_year \in [HistDocs -> BOOLEAN]
    /\ hist_refs = [d \in HistDocs |-> {}]
    /\ hist_cutoff \in HistCutoffs
    /\ hist_G = <<>>

RECURSIVE HistRefCount(_, _)
HistRefCount(refs, docs) ==
    IF docs = {} THEN 0
    ELSE LET d == CHOOSE x \in docs : TRUE
         IN  Cardinality(refs[d]) + HistRefCount(refs, docs \ {d})

\* One more reference in the References of a document.
AddReference ==
    /\ hist_pc = "input"
    /\ HistRefCount(hist_refs, HistDocs) < HistMaxRefs
    /\ \E d \in HistDocs, c \in HistCandidates :
         /\ c \notin hist_refs[d]
         /\ hist_refs' = [hist_refs EXCEPT ![d] = @ \cup {c}]
    /\ UNCHANGED <<hist_pc, hist_year, hist_cutoff, hist_G>>
    /\ UNCHANGED notHistVars

BuildHistoriograph ==
    /\ hist_pc = "input"
    /\ hist_G' = [nodes |-> {d \in HistDocs : hist_year[d]},
                  edges |-> HistoriographEdges(hist_year, hist_refs, hist_cutoff)]
    /\ hist_pc' = "returned"
    /\ UNCHANGED <<hist_year, hist_refs, hist_cutoff>>
    /\ UNCHANGED notHistVars

HistNext == AddReference \/ BuildHistoriograph

InitHistoriograph ==
    HistInit /\ RelIdle /\ PartIdle /\ PathIdle /\ CiteIdle /\ SelIdle /\ CoIdle /\ PajIdle /\ ZmIdle /\ DispIdle /\ GmIdle /\ RcIdle

SpecHistoriograph == InitHistoriograph /\ [][HistNext]_vars

\* A candidate title of the references of u approximately matches the title of v.
HistCites(u, v) ==
    \E c \in hist_refs[u] : approximate_match(c, TitleMap, hist_cutoff) = HistTitle[v]

\* C19 (as stated): every edge of the returned graph is directed from the
\* citing document to the cited document: an edge u -> v exists only if a
\* candidate title of u's references approximately matches v's title and
\* u # v.
C19_EdgesCitingToCited ==
    hist_pc = "returned" =>
        \A e \in hist_G.edges : e[1] # e[2] /\ HistCites(e[1], e[2])

\* What the code does: every edge runs from the cited document to the citing one.
C19_EdgesCitedToCiting ==
    hist_pc = "returned" =>
        \A e \in hist_G.edges : e[1] # e[2] /\ HistCites(e[2], e[1])

(***************************************************************************)
(* Pajek export: save_network (formats = ["pajek"]) and save_graph with    *)
(* file_format = "pajek", which calls save_to_pajek.  A file name is the   *)
(* sequence of the pieces it is formatted from, the base name first.       *)
(***************************************************************************)
PajNodes == {"n1", "n2"}

PajPartitionAttrs == {"partition_louvain", "partition_walktrap"}

PajVectorAttrs == {"degree", "count"}

\* k.startswith(partition_attr) with partition_attr = "partition".
StartsWithPartition(k) == k \in PajPartitionAttrs

\* f"{filename}.net", f"{filename}_{attr}.clu", f"{filename}_{vec_col}.vec",
\* f"{basename}.clu", f"{basename}.vec".
NetFile == <<"base", ".net">>

CluFile(attr) == <<"base", "_", attr, ".clu">>

VecFile(attr) == <<"base", "_", attr, ".vec">>

BareCluFile == <<"base", ".clu">>

BareVecFile == <<"base", ".vec">>

\* The partition attributes save_network finds on the nodes of G.
GraphPartitionAttrs(attrs) ==
    {k \in UNION {attrs[n] : n \in PajNodes} : StartsWithPartition(k)}

SaveNetworkFiles(attrs, vector_cols) ==
    {NetFile}
        \cup {CluFile(attr) : attr \in GraphPartitionAttrs(attrs)}
        \cup {VecFile(vec_col) : vec_col \in vector_cols}

SaveToPajekFiles(partition_attrs, vector_attrs) ==
    {NetFile}
        \cup {IF Cardinality(partition_attrs) = 1 THEN BareCluFile ELSE CluFile(attr) :
                 attr \in partition_attrs}
        \cup (IF vector_attrs # {} THEN {BareVecFile} ELSE {})

PajInit ==
    /\ paj_pc = "input"
    /\ paj_attrs = [n \in PajNodes |-> {}]
    /\ paj_call = <<>>
    /\ paj_files = {}

\* add_partitions / add_vectors_from_dataframe: one more attribute on a node.
SetNodeAttribute ==
    /\ paj_pc = "input"
    /\ \E n \in PajNodes, k \in PajPartitionAttrs \cup PajVectorAttrs :
         /\ k \notin paj_attrs[n]
         /\ paj_attrs' = [paj_attrs EXCEPT ![n] = @ \cup {k}]
    /\ UNCHANGED <<paj_pc, paj_call, paj_files>>
    /\ UNCHANGED notPajVars

SaveNetwork ==
    /\ paj_pc = "input"
    /\ \E vector_cols \in SUBSET PajVectorAttrs :
         /\ paj_call' = [exporter |-> "save_network",
                         partition_attrs |-> GraphPartitionAttrs(paj_attrs),
                         vector_attrs |-> vector_cols]
         /\ paj_files' = SaveNetworkFiles(paj_attrs, vector_cols)
    /\ paj_pc' = "written"
    /\ UNCHANGED paj_attrs
    /\ UNCHANGED notPajVars

SaveGraph ==
    /\ paj_pc = "input"
    /\ \E partition_attrs \in SUBSET PajPartitionAttrs, vector_attrs \in SUBSET PajVectorAttrs :
         /\ paj_call' = [exporter |-> "save_to_pajek",
                         partition_attrs |-> partition_attrs,
                         vector_attrs |-> vector_attrs]
         /\ paj_files' = SaveToPajekFiles(partition_attrs, vector_attrs)
    /\ paj_pc' = "written"
    /\ UNCHANGED paj_attrs
    /\ UNCHANGED notPajVars

PajNext == SetNodeAttribute \/ SaveNetwork \/ SaveGraph

InitPajek ==
    PajInit /\ RelIdle /\ PartIdle /\ PathIdle /\ CiteIdle /\ SelIdle /\ CoIdle /\ HistIdle /\ ZmIdle /\ DispIdle /\ GmIdle /\ RcIdle

SpecPajek == InitPajek /\ [][PajNext]_vars

\* <base>.net, one <base>_partition_<algo>.clu per partition attribute and
\* one <base>_<attr>.vec per vector attribute.
PajekTriple(P, V) ==
    {NetFile} \cup {CluFile(attr) : attr \in P} \cup {VecFile(attr) : attr \in V}

\* C20 (as stated): every Pajek export of a graph with partition attributes
\* P and vector attributes V, by save_network or by save_graph /
\* save_to_pajek, writes <base>.net plus exactly one
\* <base>_partition_<algo>.clu per attribute in P and exactly one
\* <base>_<attr>.vec per attribute in V, for any sizes of P and V.
C20_PajekFiles ==
    paj_pc = "written" =>
        paj_files = PajekTriple(paj_call.partition_attrs, paj_call.vector_attrs)

\* save_network alone keeps the convention.
C20_SaveNetworkOnly ==
    (paj_pc = "written" /\ paj_call.exporter = "save_network") =>
        paj_files = PajekTriple(paj_call.partition_attrs, paj_call.vector_attrs)

(***************************************************************************)
(* Relation Analysis Suite.  Every function of the suite starts with       *)
(* "if clean_zeros: df_relation = remove_zero_margins(df_relation)" and    *)
(* computes on what that leaves; relate_concepts calls each of them on the *)
(* stored relation matrix.  A data frame is [rows, cols, val].             *)
(***************************************************************************)
ZmRows == {"r1", "r2", "r3"}

ZmCols == {"c1", "c2"}

ZmMaxCount == 2

SuiteFunctions ==
    {"compute_diversity_metrics", "analyze_bipartite_relation", "cluster_relation_matrix",
     "bicluster_relation_matrix", "compute_correspondence_analysis",
     "extract_sorted_residual_pairs", "compute_svd_statistics", "compute_log_ratio"}

RECURSIVE SumOf(_, _)
SumOf(f, keys) ==
    IF keys = {} THEN 0
    ELSE LET k == CHOOSE x \in keys : TRUE IN f[k] + SumOf(f, keys \ {k})

\* df.sum(axis=1)[r] and df.sum(axis=0)[c].
RowMargin(df, r) == SumOf(df.val, {r} \X df.cols)

ColMargin(df, c) == SumOf(df.val, df.rows \X {c})

\* df.loc[rows, cols].
Loc(df, rows, cols) ==
    [rows |-> rows, cols |-> cols, val |-> [p \in rows \X cols |-> df.val[p]]]

\* df_relation.loc[df_relation.sum(axis=1) > 0, df_relation.sum(axis=0) > 0]
remove_zero_margins_bug(df) == df

remove_zero_margins(df) ==
    Loc(df, {r \in df.rows : RowMargin(df, r) > 0}, {c \in df.cols : ColMargin(df, c) > 0})

\* The first statement of every function of the suite.
CleanedInput(df, clean_zeros) == IF clean_zeros THEN remove_zero_margins(df) ELSE df

ZmInit ==
    /\ zm_pc = "input"
    /\ df_relation = [rows |-> ZmRows, cols |-> ZmCols, val |-> [p \in ZmRows \X ZmCols |-> 0]]
    /\ zm_call = <<>>
    /\ zm_used = <<>>

\* One more co-occurrence counted in a cell of the relation matrix.
CountCell ==
    /\ zm_pc = "input"
    /\ \E p \in ZmRows \X ZmCols :
         /\ df_relation.val[p] < ZmMaxCount
         /\ df_relation' = [df_relation EXCEPT !.val[p] = @ + 1]
    /\ UNCHANGED <<zm_pc, zm_call, zm_used>>
    /\ UNCHANGED notZmVars

\* A function of the suite called by the user, clean_zeros given or left at True.
SuiteCall ==
    /\ zm_pc = "input"
    /\ \E f \in SuiteFunctions, clean_zeros \in BOOLEAN :
         /\ zm_call' = [function |-> f, clean_zeros |-> clean_zeros, through |-> "direct"]
         /\ zm_used' = CleanedInput(df_relation, clean_zeros)
    /\ zm_pc' = "computed"
    /\ UNCHANGED df_relation
    /\ UNCHANGED notZmVars

\* relate_concepts(..., include_stats=[stat], clean_zeros=...): its own
\* parameter clean_zeros is not handed on, the function runs with its default.
RelateConceptsStat ==
    /\ zm_pc = "input"
    /\ \E f \in SuiteFunctions, clean_zeros \in BOOLEAN :
         /\ zm_call' = [function |-> f, clean_zeros |-> clean_zeros, through |-> "relate_concepts"]
         /\ zm_used' = CleanedInput(df_relation, TRUE)
    /\ zm_pc' = "computed"
    /\ UNCHANGED df_relation
    /\ UNCHANGED notZmVars

ZmNext == CountCell \/ SuiteCall \/ RelateConceptsStat

InitMargins ==
    ZmInit /\ RelIdle /\ PartIdle /\ PathIdle /\ CiteIdle /\ SelIdle /\ CoIdle /\ HistIdle /\ PajIdle /\ DispIdle /\ GmIdle /\ RcIdle

SpecMargins == InitMargins /\ [][ZmNext]_vars

\* C21: the matrix a function of the suite computes on, with clean_zeros at
\* its default or called through relate_concepts, has no row and no column
\* with sum zero, and remove_zero_margins applied to it again changes nothing.
C21_NoZeroMargins ==
    (zm_pc = "computed" /\ (zm_call.clean_zeros \/ zm_call.through = "relate_concepts")) =>
        /\ \A r \in zm_used.rows : SumOf(zm_used.val, {r} \X zm_used.cols) > 0
        /\ \A c \in zm_used.cols : SumOf(zm_used.val, zm_used.rows \X {c}) > 0
        /\ remove_zero_margins(zm_used) = zm_used

C21_Witness ==
    /\ zm_pc = "computed"
    /\ zm_call.through = "relate_concepts" /\ ~zm_call.clean_zeros
    /\ \E r \in ZmRows : RowMargin(df_relation, r) = 0
    /\ \E c \in ZmCols : ColMargin(df_relation, c) = 0
    /\ Cardinality(zm_used.rows) = 2 /\ Cardinality(zm_used.cols) = 1

(***************************************************************************)
(* The operations that dispatch on a method name: cluster_relation_matrix  *)
(* (method), count_occurrences_across_groups (merge_type) and              *)
(* compute_group_similarity_matrices (methods, a list).  What is kept of a *)
(* call is the error it raises and the names it returns a result for.      *)
(***************************************************************************)
DispMaxMethods == 3

ClusterMethods == {"kmeans", "hierarchical", "spectral"}

how_map == {"all items", "shared items"}

supported_methods == {"jaccard", "count", "sokal-michener", "simple-matching", "rogers-tanimoto"}

\* A name that none of the three operations supports.
UnknownName == "ward"

NoError == "none"

\* cluster_relation_matrix: if / elif / elif / else: raise ValueError(...).
ClusterOutcome(method) ==
    IF method \in ClusterMethods
    THEN [raised |-> NoError, keys |-> {method}]
    ELSE [raised |-> "ValueError", keys |-> {}]

\* count_occurrences_across_groups: how = how_map.get(merge_type).
MergeOutcome(merge_type) ==
    IF merge_type \in how_map
    THEN [raised |-> NoError, keys |-> {merge_type}]
    ELSE [raised |-> "ValueError", keys |-> {}]

\* compute_group_similarity_matrices: a name outside supported_methods is
\* answered with print("Warning: Unsupported method ..., skipping.") and continue.
SimilarityOutcome(methods) ==
    [raised |-> NoError,
     keys |-> {methods[k] : k \in {j \in 1..Len(methods) : methods[j] \in supported_methods}}]

DispInit ==
    /\ disp_pc = "input"
    /\ disp_methods = <<>>
    /\ disp_call = <<>>
    /\ disp_result = <<>>

\* The caller puts one more name on the list methods.
AppendMethod ==
    /\ disp_pc = "input"
    /\ Len(disp_methods) < DispMaxMethods
    /\ \E name \in {"jaccard", "count", "simple-matching", UnknownName} :
         disp_methods' = Append(disp_methods, name)
    /\ UNCHANGED <<disp_pc, disp_call, disp_result>>
    /\ UNCHANGED notDispVars

ClusterRelationMatrix ==
    /\ disp_pc = "input"
    /\ \E method \in ClusterMethods \cup {UnknownName} :
         /\ disp_call' = [operation |-> "cluster_relation_matrix", names |-> {method}]
         /\ disp_result' = ClusterOutcome(method)
    /\ disp_pc' = "done"
    /\ UNCHANGED disp_methods
    /\ UNCHANGED notDispVars

CountOccurrencesAcrossGroups ==
    /\ disp_pc = "input"
    /\ \E merge_type \in how_map \cup {UnknownName} :
         /\ disp_call' = [operation |-> "count_occurrences_across_groups", names |-> {merge_type}]
         /\ disp_result' = MergeOutcome(merge_type)
    /\ disp_pc' = "done"
    /\ UNCHANGED disp_methods
    /\ UNCHANGED notDispVars

ComputeGroupSimilarityMatrices ==
    /\ disp_pc = "input"
    /\ disp_call' = [operation |-> "compute_group_similarity_matrices",
                     names |-> {disp_methods[k] : k \in 1..Len(disp_methods)}]
    /\ disp_result' = SimilarityOutcome(disp_methods)
    /\ disp_pc' = "done"
    /\ UNCHANGED disp_methods
    /\ UNCHANGED notDispVars

DispNext ==
    \/ AppendMethod
    \/ ClusterRelationMatrix
    \/ CountOccurrencesAcrossGroups
    \/ ComputeGroupSimilarityMatrices

InitDispatch ==
    DispInit /\ RelIdle /\ PartIdle /\ PathIdle /\ CiteIdle /\ SelIdle /\ CoIdle /\ HistIdle /\ PajIdle /\ ZmIdle /\ GmIdle /\ RcIdle

SpecDispatch == InitDispatch /\ [][DispNext]_vars

\* The names the operation called supports.
SupportedNames ==
    CASE disp_call.operation = "cluster_relation_matrix" -> ClusterMethods
      [] disp_call.operation = "count_occurrences_across_groups" -> how_map
      [] OTHER -> supported_methods

\* C22 (as stated): every operation that dispatches on a method name, given
\* a name outside its supported set, fails with a ValueError; it does not
\* skip the name and returns no result.
C22_UnknownNameRaises ==
    (disp_pc = "done" /\ ~(disp_call.names \subseteq SupportedNames)) =>
        disp_result.raised = "ValueError" /\ disp_result.keys = {}

\* The two operations that take one name do fail with a ValueError.
C22_SingleNameOperations ==
    (disp_pc = "done" /\ ~(disp_call.names \subseteq SupportedNames)
        /\ disp_call.operation # "compute_group_similarity_matrices") =>
        disp_result.raised = "ValueError" /\ disp_result.keys = {}

(***************************************************************************)
(* generate_group_matrix: every branch ends in finalize(binary_df).  A     *)
(* value of the returned frame is kept with its dtype: [dtype |-> "bool",  *)
(* v |-> 0 or 1] is False or True, [dtype |-> "int", v |-> n] the int n.   *)
(***************************************************************************)
GmDocs == {1, 2, 3}

GmGroups == {"g1", "g2"}

PyBool(b) == [dtype |-> "bool", v |-> IF b THEN 1 ELSE 0]

PyInt(n) == [dtype |-> "int", v |-> n]

\* binary_df.astype(int) / binary_df.astype(bool), on one value.
AsType(x, binary_as_int) ==
    IF binary_as_int THEN PyInt(x.v) ELSE PyBool(x.v # 0)

\* ~binary_df on one value: logical not on bool, bitwise not on an integer.
Invert(x) ==
    IF x.dtype = "bool" THEN PyBool(x.v = 0) ELSE PyInt(-x.v - 1)

\* finalize(binary_df).
finalize(binary_df, binary_as_int, invert_matrix) ==
    [p \in DOMAIN binary_df |->
        LET x == AsType(binary_df[p], binary_as_int)
        IN  IF invert_matrix THEN Invert(x) ELSE x]

GmInit ==
    /\ gm_pc = "input"
    /\ gm_membership = [p \in GmDocs \X GmGroups |-> FALSE]
    /\ gm_args = <<>>
    /\ gm_matrix = <<>>

\* One more document of df belongs to a group.
AddMember ==
    /\ gm_pc = "input"
    /\ \E p \in GmDocs \X GmGroups :
         /\ ~gm_membership[p]
         /\ gm_membership' = [gm_membership EXCEPT ![p] = TRUE]
    /\ UNCHANGED <<gm_pc, gm_args, gm_matrix>>
    /\ UNCHANGED notGmVars

GenerateGroupMatrix ==
    /\ gm_pc = "input"
    /\ \E binary_as_int \in BOOLEAN, invert_matrix \in BOOLEAN :
         /\ gm_args' = [binary_as_int |-> binary_as_int, invert_matrix |-> invert_matrix]
         /\ gm_matrix' = finalize([p \in GmDocs \X GmGroups |-> PyBool(gm_membership[p])],
                                  binary_as_int, invert_matrix)
    /\ gm_pc' = "returned"
    /\ UNCHANGED gm_membership
    /\ UNCHANGED notGmVars

GmNext == AddMember \/ GenerateGroupMatrix

InitGroupMatrix ==
    GmInit /\ RelIdle /\ PartIdle /\ PathIdle /\ CiteIdle /\ SelIdle /\ CoIdle /\ HistIdle /\ PajIdle /\ ZmIdle /\ DispIdle /\ RcIdle

SpecGroupMatrix == InitGroupMatrix /\ [][GmNext]_vars

\* The entry of the matrix the same call without invert_matrix returns.
GmPlainEntry(p) ==
    IF gm_args.binary_as_int
    THEN [dtype |-> "int", v |-> IF gm_membership[p] THEN 1 ELSE 0]
    ELSE [dtype |-> "bool", v |-> IF gm_membership[p] THEN 1 ELSE 0]

\* C24 (as stated): the values of the returned matrix are only False / True,
\* or only 0 / 1 with binary_as_int=True; with invert_matrix=True every
\* entry is the logical complement of the entry without invert_matrix, for
\* both settings of binary_as_int.
C24_BinaryAndComplement ==
    gm_pc = "returned" =>
        \A p \in DOMAIN gm_matrix :
            /\ gm_matrix[p].dtype = (IF gm_args.binary_as_int THEN "int" ELSE "bool")
            /\ gm_matrix[p].v \in {0, 1}
            /\ gm_matrix[p].v =
                  (IF gm_args.invert_matrix THEN 1 - GmPlainEntry(p).v ELSE GmPlainEntry(p).v)

\* With binary_as_int=False the statement holds.
C24_BoolOnly ==
    (gm_pc = "returned" /\ ~gm_args.binary_as_int) =>
        \A p \in DOMAIN gm_matrix :
            /\ gm_matrix[p].dtype = "bool"
            /\ gm_matrix[p].v \in {0, 1}
            /\ gm_matrix[p].v =
                  (IF gm_args.invert_matrix THEN 1 - GmPlainEntry(p).v ELSE GmPlainEntry(p).v)

(***************************************************************************)
(* select_documents: the item -> document-indices mapping.                 *)
(***************************************************************************)
\* No element of the list is repeated.
NoRepeats(q) == \A i, j \in 1..Len(q) : q[i] = q[j] => i = j

\* The row indices of the documents whose list holds the item.
MatchingDocuments(item) ==
    {k - 1 : k \in {j \in 1..Len(sel_docs) :
                       ~sel_docs[j].nan /\ item \in Range(sel_docs[j].parts)}}

\* C25 (as stated): in the mapping select_documents returns, the list of
\* every item contains every matching document index exactly once.
C25_IndicesOnce ==
    sel_pc = "returned" =>
        \A item \in DOMAIN match_indices :
            /\ Range(match_indices[item]) = MatchingDocuments(item)
            /\ NoRepeats(match_indices[item])

\* The mapping match_items_and_compute_binary_indicators returns has every
\* matching index once.
C25_HelperOnce ==
    sel_pc = "matched" =>
        \A item \in DOMAIN match_indices :
            /\ Range(match_indices[item]) = MatchingDocuments(item)
            /\ NoRepeats(match_indices[item])

(***************************************************************************)
(* add_partitions: which nodes carry the attribute of a returned           *)
(* algorithm.                                                              *)
(***************************************************************************)
\* C26 (as stated): after add_partitions(G), for every algorithm in the
\* returned dict, every node of G, isolated nodes and nodes of no k-clique
\* included, carries the attribute partition_<algorithm>: every returned
\* mapping labels all the nodes of G.
C26_TotalLabelling ==
    part_pc = "returned" =>
        \A a \in DOMAIN results :
            /\ DOMAIN results[a] = PartNodes
            /\ \A n \in PartNodes : AttrName(a) \in DOMAIN node_attrs[n]

\* The algorithms that work on G itself, other than k_clique, label every node.
C26_NetworkxAlgorithms ==
    part_pc = "returned" =>
        \A a \in DOMAIN results \ (IgraphBased \cup {"k_clique"}) :
            /\ DOMAIN results[a] = PartNodes
            /\ \A n \in PartNodes : AttrName(a) \in DOMAIN node_attrs[n]

(***************************************************************************)
(* compute_main_path: the consecutive documents of the path.               *)
(***************************************************************************)
\* zip(path, path[1:])
ConsecutivePairs(path) == {<<path[k], path[k + 1]>> : k \in 1..(Len(path) - 1)}

\* C27 (as stated): for every citation digraph G, cyclic or not, each pair
\* of consecutive document ids (u, v) of compute_main_path(G) is an edge
\* u -> v of G itself.
C27_ConsecutiveAreEdges ==
    path_pc = "done" => ConsecutivePairs(main_path) \subseteq G_edges

\* For an acyclic G the consecutive pairs are edges of G.
C27_AcyclicOnly ==
    (path_pc = "done" /\ ~HasCycle) => ConsecutivePairs(main_path) \subseteq G_edges

(***************************************************************************)
(* BiblioStats.compute_cooccurrence without a network.                     *)
(***************************************************************************)
\* C23 (as stated): compute_cooccurrence called with network=False
\* completes without raising; partitioning and export are skipped.
C23_NoNetworkCompletes ==
    (co_pc \in {"returned", "raised"} /\ ~co_args.network) =>
        /\ co_pc = "returned"
        /\ ~partitions_saw.called /\ ~save_saw.called

\* With network=False the call raises, whatever the other arguments are.
C23_NoNetworkRaises ==
    (co_pc \in {"returned", "raised"} /\ ~co_args.network) => co_pc = "raised"

(***************************************************************************)
(* BiblioStats.compute_cooccurrence: the network returned and stored.      *)
(***************************************************************************)
\* The items that are nodes of the network before the final relabelling.
RetainedItems ==
    IF co_args.vector_df.given THEN ItemsA \cap co_args.vector_df.nodes ELSE ItemsA

\* C28 (as stated): the co-occurrence network returned and stored, after
\* vector attachment and the final relabelling that cuts every name at
\* " (", has no self-loop edge and exactly one node per retained item, for
\* any item names.
C28_ReturnedNetwork ==
    co_pc = "returned" =>
        /\ \A e \in co_network.edges : Cardinality(e) = 2
        /\ Cardinality(co_network.nodes) = Cardinality(RetainedItems)

\* When no two names agree before " (" the statement holds.
C28_DistinctHeads ==
    (co_pc = "returned" /\ item_names = PlainNames) =>
        /\ \A e \in co_network.edges : Cardinality(e) = 2
        /\ Cardinality(co_network.nodes) = Cardinality(RetainedItems)

(***************************************************************************)
(* BiblioStats.build_citation_network called with main_path=False.         *)
(***************************************************************************)
\* C29 (as stated): when no main path has been computed and the call is
\* made with main_path=False, it completes without raising and stores the
\* relabelled network.
C29_NoMainPathCompletes ==
    (cite_pc \in {"stored", "raised"} /\ ~citation_main_path.set) =>
        cite_pc = "stored"

\* The call raises only when there is no main path to relabel.
C29_RaisesOnlyWithoutPath ==
    cite_pc = "raised" => ~citation_main_path.set

(***************************************************************************)
(* BiblioStats.relate_concepts: the relation matrices it stores.           *)
(***************************************************************************)
RcDocs == 2

RcMaxCalls == 2

RcConcepts == {"Sources", "Author Keywords", "Topics"}

SourceNames == {"Journal of Informetrics", "Scientometrics"}

KeywordNames == {"h-index"}

TopicNames == {"citation analysis"}

\* A document-item indicator frame over the given column labels.
BinaryFrames(cols) == [columns : {cols}, rows : [1..RcDocs -> [cols -> {0, 1}]]]

sources_abb_dict ==
    [n \in SourceNames |->
        IF n = "Journal of Informetrics" THEN "J Informetr" ELSE "Scientometr"]

\* custom_matrices: None, or a dictionary with a frame for "Topics".
CustomMatrices == [given : BOOLEAN, Topics : BinaryFrames(TopicNames)]

\* compute_relation_matrix(df1, df2)[0]: df1.T @ df2.
RelationFrame(f1, f2) ==
    [index |-> f1.columns,
     columns |-> f2.columns,
     cell |-> [p \in f1.columns \X f2.columns |->
                  DotColumns(f1.rows, f2.rows, p[1], p[2], Len(f1.rows))]]

\* The label a renamed label came from.
Renamed(d, x) == CHOOSE i \in DOMAIN d : d[i] = x

\* df_relation.rename(index=mapping)
RenameIndex(R, d) ==
    [index |-> {d[i] : i \in R.index},
     columns |-> R.columns,
     cell |-> [p \in {d[i] : i \in R.index} \X R.columns |->
                  R.cell[<<Renamed(d, p[1]), p[2]>>]]]

\* df_relation.rename(columns=mapping)
RenameColumns(R, d) ==
    [index |-> R.index,
     columns |-> {d[j] : j \in R.columns},
     cell |-> [p \in R.index \X {d[j] : j \in R.columns} |->
                  R.cell[<<p[1], Renamed(d, p[2])>>]]]

T_bug(R) == R

\* df_relation.T
T(R) ==
    [index |-> R.columns,
     columns |-> R.index,
     cell |-> [p \in R.columns \X R.index |-> R.cell[<<p[2], p[1]>>]]]

\* self.relation_matrices[a][b] = frame
PutMatrix(store, a, b, frame) ==
    [p \in (DOMAIN store) \cup {<<a, b>>} |->
        IF p = <<a, b>> THEN frame ELSE store[p]]

RcInit ==
    /\ rc_pc = "ready"
    /\ rc_calls = 0
    /\ sources_indcators \in BinaryFrames(SourceNames)
    /\ author_keywords_indcators \in BinaryFrames(KeywordNames)
    /\ relation_matrices = <<>>
    /\ relations = {}

\* One call of relate_concepts.  stat_fails: a function of include_stats
\* raises while its statistic is computed.
RelateConcepts ==
    /\ rc_pc \in {"ready", "returned", "raised"}
    /\ rc_calls < RcMaxCalls
    /\ rc_calls' = rc_calls + 1
    /\ \E concept1 \in RcConcepts, concept2 \in RcConcepts,
          custom_matrices \in CustomMatrices, stat_fails \in BOOLEAN :
         LET known(c) == IF c = "Sources" THEN sources_indcators
                         ELSE author_keywords_indcators
             isKnown(c) == c \in {"Sources", "Author Keywords"}
             available(c) == isKnown(c) \/ (custom_matrices.given /\ c = "Topics")
             matrix(c) == IF isKnown(c) THEN known(c) ELSE custom_matrices.Topics
         IN  IF ~available(concept1) \/ ~available(concept2)
             THEN \* raise ValueError("No binary matrix available for ...")
                  /\ rc_pc' = "raised"
                  /\ UNCHANGED <<relation_matrices, relations>>
             ELSE LET raw == RelationFrame(matrix(concept1), matrix(concept2))
                      byIndex == IF concept1 = "Sources"
                                 THEN RenameIndex(raw, sources_abb_dict) ELSE raw
                      renamed == IF concept2 = "Sources"
                                     THEN RenameColumns(byIndex, sources_abb_dict)
                                     ELSE byIndex
                      forward == PutMatrix(relation_matrices, concept1, concept2, renamed)
                  IN  /\ relation_matrices' =
                             PutMatrix(forward, concept2, concept1, T(renamed))
                      /\ IF stat_fails
                         THEN /\ rc_pc' = "raised"
                              /\ UNCHANGED relations
                         ELSE /\ rc_pc' = "returned"
                              /\ relations' = relations \cup {<<concept1, concept2>>}
    /\ UNCHANGED <<sources_indcators, author_keywords_indcators>>
    /\ UNCHANGED notRcVars

RcNext == RelateConcepts

InitRelateConcepts ==
    RcInit /\ RelIdle /\ PartIdle /\ PathIdle /\ CiteIdle /\ SelIdle /\ CoIdle /\ HistIdle /\ PajIdle /\ ZmIdle /\ DispIdle /\ GmIdle

SpecRelateConcepts == InitRelateConcepts /\ [][RcNext]_vars

\* C30: after any sequence of relate_concepts calls, failed ones included,
\* every stored relation_matrices[a][b] has a stored relation_matrices[b][a]
\* whose rows are the columns of the first, whose columns are its rows and
\* whose cell (j, i) is the cell (i, j) of the first.
C30_StoredBothWays ==
    \A p \in DOMAIN relation_matrices :
        LET q == <<p[2], p[1]>>
            ab == relation_matrices[p]
        IN  /\ q \in DOMAIN relation_matrices
            /\ relation_matrices[q].index = ab.columns
            /\ relation_matrices[q].columns = ab.index
            /\ \A i \in ab.index, j \in ab.columns :
                   relation_matrices[q].cell[<<j, i>>] = ab.cell[<<i, j>>]

\* A call for two different concepts failed in its statistics after a
\* relation matrix with unequal cells had been stored for them.
C30_Witness ==
    /\ rc_pc = "raised"
    /\ <<"Sources", "Topics">> \in DOMAIN relation_matrices
    /\ <<"Sources", "Topics">> \notin relations
    /\ <<"Topics", "Sources">> \notin relations
    /\ \E i \in relation_matrices[<<"Sources", "Topics">>].index,
          k \in relation_matrices[<<"Sources", "Topics">>].index :
           relation_matrices[<<"Sources", "Topics">>].cell[<<i, "citation analysis">>]
               # relation_matrices[<<"Sources", "Topics">>].cell[<<k, "citation analysis">>]

====
